---- MODULE Spec2Model ----
(***************************************************************************)
(* Intelligence Report Generator: the source registry (DataSourceManager), *)
(* the analysis engine (AnalysisEngine) and the report compiler            *)
(* (ReportGenerator), as state machines over the JavaScript event loop.    *)
(* A step is one run-to-completion stretch of code: a synchronous method,  *)
(* the part of an async method before its await, or the part after it.     *)
(***************************************************************************)
EXTENDS Integers, Sequences, FiniteSets, TLC

(***************************************************************************)
(* Bounds of the model.                                                    *)
(***************************************************************************)
\* how many ids generateId hands out in one run (sources ever created)
MaxIds == 2
\* how many updateSource calls on registered sources the environment makes
MaxUpdates == 1
\* how many runAnalysis calls are issued in one run
MaxRuns == 2
\* how many reports are generated in one run
MaxReports == 3
\* the longest finding list given to calculateOverallThreatLevel
MaxFindings == 5
\* how many listeners an EventEmitter holds at a time, over all its events
MaxListeners == 3
\* the number of lines of a file text, at most
MaxLines == 3
\* the number of records of a record list given to the report compiler alone
MaxRecords == 3
\* the number of findings given to the incident-report narrative alone
MaxIncidents == 3
\* the number of initialize and shutdown calls of the orchestrator
MaxLifecycle == 3
\* the number of files of one upload
MaxFiles == 2

(***************************************************************************)
(* JavaScript values.  A value is a tagged record, so that values of       *)
(* different JavaScript types can be compared.  A record (any[] element)   *)
(* is an object, modelled as a function from its property names to         *)
(* values, or null.                                                        *)
(***************************************************************************)
Undefined == [undef |-> TRUE]
JsNull == [null |-> TRUE]
Str(s) == [str |-> s]
Num(n) == [num |-> n]

\* item.f : a missing property reads as undefined
Get(item, f) == IF f \in DOMAIN item THEN item[f] ELSE Undefined

\* JavaScript truthiness of a property value: undefined, null, "" and 0 are
\* falsy
Truthy(v) ==
    /\ v # Undefined
    /\ v # JsNull
    /\ v # Str("")
    /\ v # Num(0)

(***************************************************************************)
(* JavaScript Map: a sequence of [k, v] entries in insertion order.        *)
(* set() of a present key keeps the entry's position, set() of an absent   *)
(* key appends, delete() closes the gap.                                   *)
(***************************************************************************)
MapKeys(m) == {m[i].k : i \in 1..Len(m)}

MapHas(m, key) == key \in MapKeys(m)

MapIndex(m, key) == CHOOSE i \in 1..Len(m) : m[i].k = key

MapGet(m, key) == m[MapIndex(m, key)].v

MapSet(m, key, val) ==
    IF MapHas(m, key)
    THEN [m EXCEPT ![MapIndex(m, key)] = [k |-> key, v |-> val]]
    ELSE Append(m, [k |-> key, v |-> val])

MapDelete(m, key) ==
    IF MapHas(m, key)
    THEN [i \in 1..(Len(m) - 1) |-> IF i < MapIndex(m, key) THEN m[i] ELSE m[i + 1]]
    ELSE m

RECURSIVE Flatten(_)
Flatten(ss) == IF ss = <<>> THEN <<>> ELSE Head(ss) \o Flatten(Tail(ss))

(***************************************************************************)
(* Types of src/src/types/index.ts.                                        *)
(***************************************************************************)
SourceTypes == {"osint", "network", "threat", "custom"}
SourceStatuses == {"active", "inactive", "error"}

\* the ids generateId returns; 0 is no id
IDS == 1..MaxIds

\* a slot of the heap that holds no DataSource object
NoObj == [id |-> 0, type |-> "none", status |-> "none"]

(***************************************************************************)
(* The demo records of DataSourceManager.  Of each record the properties   *)
(* that some code of the repository reads are kept; the timestamps and the *)
(* properties nothing reads (sentiment, confidence, protocol, bytes, iocs) *)
(* are left out.                                                           *)
(***************************************************************************)
generateOSINTData ==
    << [id |-> Str("1"), source |-> Str("Twitter"),
        content |-> Str("Suspicious activity reported in sector 7")],
       [id |-> Str("2"), source |-> Str("News Feed"),
        content |-> Str("Cybersecurity incident at major corporation")],
       [id |-> Str("3"), source |-> Str("Forum"),
        content |-> Str("New vulnerability discovered in popular software")] >>

generateNetworkData ==
    << [id |-> Str("1"), sourceIP |-> Str("192.168.1.100"), destIP |-> Str("10.0.0.50"),
        port |-> Num(443), status |-> Str("allowed")],
       [id |-> Str("2"), sourceIP |-> Str("203.0.113.45"), destIP |-> Str("192.168.1.10"),
        port |-> Num(22), status |-> Str("blocked")],
       [id |-> Str("3"), sourceIP |-> Str("198.51.100.23"), destIP |-> Str("192.168.1.25"),
        port |-> Num(80), status |-> Str("allowed")] >>

generateThreatData ==
    << [id |-> Str("1"), type |-> Str("malware"), name |-> Str("Trojan.Generic.123456"),
        severity |-> Str("high"),
        description |-> Str("Banking trojan targeting financial institutions")],
       [id |-> Str("2"), type |-> Str("phishing"), name |-> Str("Phishing Campaign Alpha"),
        severity |-> Str("medium"),
        description |-> Str("Email phishing campaign targeting corporate users")] >>

generateGenericData ==
    << [id |-> Str("1"), type |-> Str("event"),
        description |-> Str("Generic data entry")] >>

\* the switch of loadSampleData
sampleDataOf(type) ==
    CASE type = "osint" -> generateOSINTData
      [] type = "network" -> generateNetworkData
      [] type = "threat" -> generateThreatData
      [] OTHER -> generateGenericData

(***************************************************************************)
(* Files.  A File has a name, kept as its '.'-separated parts, and a text. *)
(* The text is kept as what the platform functions the parsers call make   *)
(* of it: its lines, each line as its ','-separated cells (String.split),  *)
(* the value JSON.parse returns for it and, as XML, whether it is well      *)
(* formed and its elements in document order, each with its tag and its    *)
(* child elements (tag and textContent).                                   *)
(***************************************************************************)
NoJson == [valid |-> FALSE, isArray |-> FALSE, value |-> <<>>]
NoXml == [wellFormed |-> FALSE, elements |-> <<>>]

\* String.prototype.toLowerCase on the strings of the model
toLowerCase(s) ==
    CASE s = "JSON" -> "json"
      [] s = "CSV" -> "csv"
      [] s = "Xml" -> "xml"
      [] s = "TXT" -> "txt"
      [] s = "Csv" -> "csv"
      [] OTHER -> s

\* String.prototype.trim on the strings of the model
trim(s) ==
    CASE s = " " -> ""
      [] s = " a" -> "a"
      [] s = "1 " -> "1"
      [] s = " name" -> "name"
      [] OTHER -> s

\* line.trim() of a whole line is empty iff the line is one blank cell
IsBlankLine(line) == Len(line) = 1 /\ trim(line[1]) = ""

\* text.split('\n').filter(line => line.trim())
NonBlankLines(text) == SelectSeq(text.lines, LAMBDA line : ~IsBlankLine(line))

Ok(recs) == [ok |-> TRUE, recs |-> recs, err |-> "none"]
Fail(err) == [ok |-> FALSE, recs |-> <<>>, err |-> err]
\* no result yet
NotRun == [ok |-> FALSE, recs |-> <<>>, err |-> "not run"]

parseJSON(text) ==
    IF ~text.json.valid
    THEN Fail("Invalid JSON format")
    ELSE IF text.json.isArray THEN Ok(text.json.value) ELSE Ok(<<text.json.value>>)

\* a variant of CsvCell that leaves a missing value undefined
CsvCell_NoDefault(values, index) ==
    IF index <= Len(values) THEN trim(values[index]) ELSE "undefined"

\* values[index] || '' after map(v => v.trim())
CsvCell(values, index) ==
    IF index <= Len(values) /\ trim(values[index]) # "" THEN trim(values[index]) ELSE ""

\* headers.forEach((header, index) => row[header] = values[index] || ''):
\* of two equal header names the later column wins
CsvRow(headers, values) ==
    [h \in {headers[i] : i \in 1..Len(headers)} |->
        LET last == CHOOSE i \in 1..Len(headers) :
                        /\ headers[i] = h
                        /\ \A j \in 1..Len(headers) : headers[j] = h => j <= i
        IN Str(CsvCell(values, last))]

\* a variant of parseCSV that takes the header line for a data row too
parseCSV_KeepsHeaderLine(text) ==
    LET lines == NonBlankLines(text)
    IN IF Len(lines) < 2
       THEN Fail("CSV must have header and data rows")
       ELSE LET headers == [i \in 1..Len(lines[1]) |-> trim(lines[1][i])]
            IN Ok([i \in 1..Len(lines) |-> CsvRow(headers, lines[i])])

parseCSV(text) ==
    LET lines == NonBlankLines(text)
    IN IF Len(lines) < 2
       THEN Fail("CSV must have header and data rows")
       ELSE LET headers == [i \in 1..Len(lines[1]) |-> trim(lines[1][i])]
            IN Ok([i \in 1..(Len(lines) - 1) |-> CsvRow(headers, lines[i + 1])])

\* obj[child.tagName] = child.textContent over the children in document order
XmlObj(children) ==
    [t \in {children[i].tag : i \in 1..Len(children)} |->
        LET last == CHOOSE i \in 1..Len(children) :
                        /\ children[i].tag = t
                        /\ \A j \in 1..Len(children) : children[j].tag = t => j <= i
        IN Str(children[last].text)]

\* new DOMParser().parseFromString(text, 'text/xml'): the elements of the
\* document, and for a text that is not well formed a document that reports
\* the error in a parsererror element
parseFromString(text) ==
    IF text.xml.wellFormed
    THEN text.xml.elements
    ELSE << [tag |-> "parsererror", children |-> <<>>] >>

\* doc.querySelectorAll(tags): the elements with one of the tags, in
\* document order
querySelectorAll(doc, tags) == SelectSeq(doc, LAMBDA el : el.tag \in tags)

parseXML(text) ==
    LET doc == parseFromString(text)
        items == querySelectorAll(doc, {"item", "record", "entry"})
    IN IF querySelectorAll(doc, {"parsererror"}) # <<>>
       THEN Fail("Invalid XML format")
       ELSE Ok([i \in 1..Len(items) |-> XmlObj(items[i].children)])

RECURSIVE JoinCells(_)
JoinCells(line) ==
    IF Len(line) = 1 THEN line[1] ELSE line[1] \o "," \o JoinCells(Tail(line))

\* line.trim() of a kept line: the lines of the model carry blanks only at
\* the front of the first cell and at the end of the last
TrimLine(line) ==
    IF Len(line) = 1
    THEN trim(line[1])
    ELSE JoinCells([i \in 1..Len(line) |->
                       IF i \in {1, Len(line)} THEN trim(line[i]) ELSE line[i]])

parseText(text) ==
    LET lines == NonBlankLines(text)
    IN Ok([i \in 1..Len(lines) |-> [id |-> Num(i), content |-> Str(TrimLine(lines[i]))]])

\* file.name.split('.').pop()?.toLowerCase()
extensionOf(file) == toLowerCase(file.name[Len(file.name)])

parseFile(file) ==
    CASE extensionOf(file) = "json" -> parseJSON(file.text)
      [] extensionOf(file) = "csv" -> parseCSV(file.text)
      [] extensionOf(file) = "xml" -> parseXML(file.text)
      [] extensionOf(file) = "txt" -> parseText(file.text)
      [] OTHER -> Fail("Unsupported file type")

ParseErrors ==
    {"Invalid JSON format", "CSV must have header and data rows",
     "Invalid XML format", "Unsupported file type"}

\* the files the environment uploads
CsvFile ==
    [name |-> <<"data", "csv">>,
     text |-> [lines |-> << <<"name", "value">>, <<"a", "1">>, <<"b", "2">> >>,
               json |-> NoJson, xml |-> NoXml]]

JsonFile ==
    [name |-> <<"feed", "JSON">>,
     text |-> [lines |-> << <<"[{\"sourceIP\":\"203.0.113.45\"}", "null]">> >>,
               json |-> [valid |-> TRUE, isArray |-> TRUE,
                         value |-> << [sourceIP |-> Str("203.0.113.45")], JsNull >>],
               xml |-> NoXml]]

HeaderOnlyCsvFile ==
    [name |-> <<"empty", "csv">>,
     text |-> [lines |-> << <<"name", "value">>, <<" ">> >>,
               json |-> NoJson, xml |-> NoXml]]

NoExtensionFile ==
    [name |-> <<"notes">>,
     text |-> [lines |-> << <<"hello">> >>, json |-> NoJson, xml |-> NoXml]]

Files == {CsvFile, JsonFile, HeaderOnlyCsvFile, NoExtensionFile}

\* the files uploaded to the registry
Uploads == {CsvFile, HeaderOnlyCsvFile}

(***************************************************************************)
(* The files given to parseFile alone: every name below with every text    *)
(* below.                                                                  *)
(***************************************************************************)
FileNames ==
    {<<"data", "csv">>, <<"DATA", "Csv">>, <<"feed", "JSON">>, <<"doc", "Xml">>,
     <<"log", "TXT">>, <<"a", "csv", "bak">>, <<"archive", "tar", "gz">>,
     <<"report", "pdf">>, <<"data", "">>, <<"", "csv">>,
     <<"notes">>, <<"json">>, <<"csv">>, <<"xml">>, <<"txt">>}

\* the lines of the texts that are neither JSON nor XML
TextLines ==
    {<<"name", "value">>, <<" name", "value">>, <<"k", "k">>,
     <<"a", "1 ">>, <<" a">>, <<"b", "2", "x">>, <<"", "7">>, <<" ">>}

PlainTexts ==
    {[lines |-> ls, json |-> NoJson, xml |-> NoXml] :
        ls \in UNION {[1..n -> TextLines] : n \in 1..MaxLines}}

\* [{"sourceIP":"203.0.113.45"},null]   {"id":"1","port":22}   []   7
JsonTexts ==
    {JsonFile.text,
     [lines |-> << <<"{\"id\":\"1\"", "\"port\":22}">> >>,
      json |-> [valid |-> TRUE, isArray |-> FALSE,
                value |-> [id |-> Str("1"), port |-> Num(22)]],
      xml |-> NoXml],
     [lines |-> << <<"[]">> >>,
      json |-> [valid |-> TRUE, isArray |-> TRUE, value |-> <<>>], xml |-> NoXml],
     [lines |-> << <<"7">> >>,
      json |-> [valid |-> TRUE, isArray |-> FALSE, value |-> Num(7)], xml |-> NoXml]}

Leaf(tag) == [tag |-> tag, children |-> <<>>]

\* <data><item><a>1</a></item><record><b>2</b></record></data>
\* <entry><item><a>1</a></item></entry>
\* <data/>
\* <data><parsererror/><item><a>1</a></item></data>
\* <data><item>
XmlTexts ==
    {[lines |-> << <<"<data><item><a>1</a></item><record><b>2</b></record></data>">> >>,
      json |-> NoJson,
      xml |-> [wellFormed |-> TRUE,
               elements |-> << [tag |-> "data",
                                children |-> << [tag |-> "item", text |-> "1"],
                                                [tag |-> "record", text |-> "2"] >>],
                               [tag |-> "item",
                                children |-> << [tag |-> "a", text |-> "1"] >>],
                               Leaf("a"),
                               [tag |-> "record",
                                children |-> << [tag |-> "b", text |-> "2"] >>],
                               Leaf("b") >>]],
     [lines |-> << <<"<entry><item><a>1</a></item></entry>">> >>,
      json |-> NoJson,
      xml |-> [wellFormed |-> TRUE,
               elements |-> << [tag |-> "entry",
                                children |-> << [tag |-> "item", text |-> "1"] >>],
                               [tag |-> "item",
                                children |-> << [tag |-> "a", text |-> "1"] >>],
                               Leaf("a") >>]],
     [lines |-> << <<"<data/>">> >>,
      json |-> NoJson,
      xml |-> [wellFormed |-> TRUE, elements |-> << Leaf("data") >>]],
     [lines |-> << <<"<data><parsererror/><item><a>1</a></item></data>">> >>,
      json |-> NoJson,
      xml |-> [wellFormed |-> TRUE,
               elements |-> << [tag |-> "data",
                                children |-> << [tag |-> "parsererror", text |-> ""],
                                                [tag |-> "item", text |-> "1"] >>],
                               Leaf("parsererror"),
                               [tag |-> "item",
                                children |-> << [tag |-> "a", text |-> "1"] >>],
                               Leaf("a") >>]],
     [lines |-> << <<"<data><item>">> >>, json |-> NoJson, xml |-> NoXml]}

NormalizeFiles ==
    [name : FileNames, text : PlainTexts \cup JsonTexts \cup XmlTexts]

(***************************************************************************)
(* State.                                                                  *)
(*                                                                         *)
(* DataSourceManager: sources and data are its two Maps.  A DataSource is  *)
(* an object that the Map, the closure of the setTimeout callback and the  *)
(* suspended addFileSource call share: heap[r] holds the fields of the     *)
(* object created with generated id r, and sources maps a key to such a    *)
(* reference.  An object nothing refers to any more is dropped from heap.  *)
(***************************************************************************)
VARIABLES
    sources,    \* Map<string, DataSource>: entries [k |-> key, v |-> reference]
    data,       \* Map<string, any[]>: entries [k |-> key, v |-> records]
    heap,       \* reference -> fields of the DataSource object
    nextId,     \* the next id generateId returns
    timers,     \* references whose setTimeout callback is pending
    reads,      \* suspended addFileSource calls: [ref, file]
    updates,    \* how many updateSource calls have changed a source
    origin,     \* history: reference -> the call that created the object, the
                \* status it registered the source with, whether its file
                \* failed to normalize
    emitted,    \* the events the last step emitted, in order
    call        \* the operation of the last step and how it ended

regVars == <<sources, data, heap, nextId, timers, reads, updates, origin, emitted, call>>

Event(name, key) == [ev |-> name, key |-> key]
Call(op, key, outcome) == [op |-> op, key |-> key, outcome |-> outcome]

\* the references something still holds
Live(srcs, tms, rds) ==
    {srcs[i].v : i \in 1..Len(srcs)} \cup tms \cup {r.ref : r \in rds}

Collect(h, srcs, tms, rds) ==
    [r \in IDS |-> IF r \in Live(srcs, tms, rds) THEN h[r] ELSE NoObj]

NoOrigin == [by |-> "none", status |-> "none", failed |-> FALSE]

\* the history of the objects something still holds
Remember(o, srcs, tms, rds) ==
    [r \in IDS |-> IF r \in Live(srcs, tms, rds) THEN o[r] ELSE NoOrigin]

RegistryInit ==
    /\ origin = [r \in IDS |-> NoOrigin]
    /\ sources = <<>>
    /\ data = <<>>
    /\ heap = [r \in IDS |-> NoObj]
    /\ nextId = 1
    /\ timers = {}
    /\ reads = {}
    /\ updates = 0
    /\ emitted = <<>>
    /\ call = Call("none", 0, "ok")

(***************************************************************************)
(* Read accessors of DataSourceManager.                                    *)
(***************************************************************************)
getSources == [i \in 1..Len(sources) |-> heap[sources[i].v]]

getSource(id) == IF MapHas(sources, id) THEN heap[MapGet(sources, id)] ELSE Undefined

getSourceData(id) == IF MapHas(data, id) THEN MapGet(data, id) ELSE <<>>

getAllData == Flatten([i \in 1..Len(data) |-> data[i].v])

(***************************************************************************)
(* addSource(config).  config.status may be absent ("undefined").         *)
(* generateId returns Math.random().toString(36).substr(2, 9): any id, one *)
(* handed out before included.  addSourceWithId is addSource with the id   *)
(* that generateId returns to it; the object it creates has reference      *)
(* nextId.  addSource is the call in a run where generateId returns an id  *)
(* it has not returned before.                                             *)
(***************************************************************************)
generateId == IDS

SourceConfigs ==
    {[type |-> "osint", status |-> "active"],
     [type |-> "threat", status |-> "undefined"],
     [type |-> "network", status |-> "error"]}

addSourceWithId(config, id) ==
    /\ nextId <= MaxIds
    /\ LET ref == nextId
           status == IF config.status = "undefined" THEN "inactive" ELSE config.status
           srcs == MapSet(sources, id, ref)
           tms == IF status = "active" THEN timers \cup {ref} ELSE timers
       IN /\ sources' = srcs
          /\ data' = MapSet(data, id, <<>>)
          /\ timers' = tms
          /\ heap' = Collect([heap EXCEPT ![ref] = [id |-> id, type |-> config.type,
                                                    status |-> status]],
                             srcs, tms, reads)
          /\ origin' = Remember([origin EXCEPT ![ref] =
                                    [by |-> "addSource", status |-> status,
                                     failed |-> FALSE]],
                                 srcs, tms, reads)
          /\ emitted' = <<Event("sourceAdded", id)>>
          /\ call' = Call("addSource", id, "ok")
    /\ nextId' = nextId + 1
    /\ UNCHANGED <<reads, updates>>

addSource(config) == addSourceWithId(config, nextId)

(***************************************************************************)
(* loadSampleData(source.id, source.type), run by the timer of addSource:  *)
(* the callback reads both fields of the object when it fires.             *)
(***************************************************************************)
\* a variant of loadSampleData that announces the source before the records
loadSampleData_UpdatedFirst(sourceId, type) ==
    /\ data' = MapSet(data, sourceId, sampleDataOf(type))
    /\ emitted' = (IF MapHas(sources, sourceId)
                   THEN <<Event("sourceUpdated", sourceId)>>
                   ELSE <<>>)
                  \o <<Event("dataProcessed", sourceId)>>

loadSampleData(sourceId, type) ==
    /\ data' = MapSet(data, sourceId, sampleDataOf(type))
    /\ emitted' = <<Event("dataProcessed", sourceId)>>
                  \o (IF MapHas(sources, sourceId)
                      THEN <<Event("sourceUpdated", sourceId)>>
                      ELSE <<>>)

TimerFires(r) ==
    /\ r \in timers
    /\ loadSampleData(heap[r].id, heap[r].type)
    /\ timers' = timers \ {r}
    /\ heap' = Collect(heap, sources, timers \ {r}, reads)
    /\ origin' = Remember(origin, sources, timers \ {r}, reads)
    /\ call' = Call("loadSampleData", heap[r].id, "ok")
    /\ UNCHANGED <<sources, nextId, reads, updates>>

(***************************************************************************)
(* addFileSource(file): the part before `await this.parseFile(file)` and   *)
(* the part after it (the try block's rest, or the catch block).           *)
(***************************************************************************)
addFileSourceStartWithId(file, id) ==
    /\ nextId <= MaxIds
    /\ LET ref == nextId
           srcs == MapSet(sources, id, ref)
           rds == reads \cup {[ref |-> ref, file |-> file]}
       IN /\ sources' = srcs
          /\ reads' = rds
          /\ heap' = Collect([heap EXCEPT ![ref] = [id |-> id, type |-> "custom",
                                                    status |-> "active"]],
                             srcs, timers, rds)
          /\ origin' = Remember([origin EXCEPT ![ref] =
                                    [by |-> "addFileSource", status |-> "active",
                                     failed |-> FALSE]],
                                 srcs, timers, rds)
          /\ call' = Call("addFileSource", id, "pending")
    /\ nextId' = nextId + 1
    /\ emitted' = <<>>
    /\ UNCHANGED <<data, timers, updates>>

addFileSourceStart(file) == addFileSourceStartWithId(file, nextId)

\* a variant of catchParseError: the catch block forgets to mark the source
catchParseError_KeepsStatus(source) == source

\* the catch block of addFileSource: source.status = 'error'
catchParseError(source) == [source EXCEPT !.status = "error"]

addFileSourceResume(rd) ==
    /\ rd \in reads
    /\ LET parsed == parseFile(rd.file)
           source == heap[rd.ref]
           rds == reads \ {rd}
       IN IF parsed.ok
          THEN /\ data' = MapSet(data, source.id, parsed.recs)
               /\ heap' = Collect([heap EXCEPT ![rd.ref].status = "active"],
                                  sources, timers, rds)
               /\ origin' = Remember(origin, sources, timers, rds)
               /\ emitted' = <<Event("sourceAdded", source.id),
                               Event("dataProcessed", source.id)>>
               /\ call' = Call("addFileSource", rd.ref, "ok")
          ELSE /\ data' = data
               /\ heap' = Collect([heap EXCEPT ![rd.ref] = catchParseError(@)],
                                  sources, timers, rds)
               /\ origin' = Remember([origin EXCEPT ![rd.ref].failed = TRUE],
                                      sources, timers, rds)
               /\ emitted' = <<Event("sourceAdded", source.id)>>
               /\ call' = Call("addFileSource", rd.ref, parsed.err)
    /\ reads' = reads \ {rd}
    /\ UNCHANGED <<sources, nextId, timers, updates>>

(***************************************************************************)
(* updateSource(id, updates): Object.assign of the given fields.  A field  *)
(* of updates is absent when it is "undefined" (0 for id).                 *)
(***************************************************************************)
SourceUpdates ==
    {[id |-> 0, type |-> "undefined", status |-> "error"],
     [id |-> 0, type |-> "custom", status |-> "undefined"],
     [id |-> 1, type |-> "undefined", status |-> "undefined"]}

Assign(source, upd) ==
    [id |-> IF upd.id = 0 THEN source.id ELSE upd.id,
     type |-> IF upd.type = "undefined" THEN source.type ELSE upd.type,
     status |-> IF upd.status = "undefined" THEN source.status ELSE upd.status]

updateSource(id, upd) ==
    /\ IF ~MapHas(sources, id)
       THEN /\ call' = Call("updateSource", id, "Source not found")
            /\ emitted' = <<>>
            /\ UNCHANGED <<heap, updates>>
       ELSE /\ updates < MaxUpdates
            /\ updates' = updates + 1
            /\ heap' = [heap EXCEPT ![MapGet(sources, id)] = Assign(@, upd)]
            /\ emitted' = <<Event("sourceUpdated", Assign(heap[MapGet(sources, id)], upd).id)>>
            /\ call' = Call("updateSource", id, "ok")
    /\ UNCHANGED <<sources, data, nextId, timers, reads, origin>>

\* a variant of removeSource: the record set is deleted before the lookup
removeSource_DeletesFirst(id) ==
    /\ data' = MapDelete(data, id)
    /\ IF ~MapHas(sources, id)
       THEN /\ call' = Call("removeSource", id, "Source not found")
            /\ emitted' = <<>>
            /\ UNCHANGED <<sources, heap, origin>>
       ELSE /\ sources' = MapDelete(sources, id)
            /\ heap' = Collect(heap, MapDelete(sources, id), timers, reads)
            /\ origin' = Remember(origin, MapDelete(sources, id), timers, reads)
            /\ emitted' = <<Event("sourceRemoved", heap[MapGet(sources, id)].id)>>
            /\ call' = Call("removeSource", id, "ok")
    /\ UNCHANGED <<nextId, timers, reads, updates>>

\* a variant of removeSource that keeps the record set of the source
removeSource_KeepsRecords(id) ==
    /\ IF ~MapHas(sources, id)
       THEN /\ call' = Call("removeSource", id, "Source not found")
            /\ emitted' = <<>>
            /\ UNCHANGED <<sources, data, heap, origin>>
       ELSE /\ sources' = MapDelete(sources, id)
            /\ data' = data
            /\ heap' = Collect(heap, MapDelete(sources, id), timers, reads)
            /\ origin' = Remember(origin, MapDelete(sources, id), timers, reads)
            /\ emitted' = <<Event("sourceRemoved", heap[MapGet(sources, id)].id)>>
            /\ call' = Call("removeSource", id, "ok")
    /\ UNCHANGED <<nextId, timers, reads, updates>>

removeSource(id) ==
    /\ IF ~MapHas(sources, id)
       THEN /\ call' = Call("removeSource", id, "Source not found")
            /\ emitted' = <<>>
            /\ UNCHANGED <<sources, data, heap, origin>>
       ELSE /\ sources' = MapDelete(sources, id)
            /\ data' = MapDelete(data, id)
            /\ heap' = Collect(heap, MapDelete(sources, id), timers, reads)
            /\ origin' = Remember(origin, MapDelete(sources, id), timers, reads)
            /\ emitted' = <<Event("sourceRemoved", heap[MapGet(sources, id)].id)>>
            /\ call' = Call("removeSource", id, "ok")
    /\ UNCHANGED <<nextId, timers, reads, updates>>

\* a variant of shutdown that cancels the pending timers and file reads
registryShutdown_Cancels ==
    /\ sources' = <<>>
    /\ data' = <<>>
    /\ timers' = {}
    /\ reads' = {}
    /\ heap' = Collect(heap, <<>>, {}, {})
    /\ origin' = Remember(origin, <<>>, {}, {})
    /\ emitted' = <<>>
    /\ call' = Call("shutdown", 0, "ok")
    /\ UNCHANGED <<nextId, updates>>

\* DataSourceManager.shutdown: both Maps are cleared; pending timers and
\* suspended calls stay
registryShutdown ==
    /\ sources' = <<>>
    /\ data' = <<>>
    /\ heap' = Collect(heap, <<>>, timers, reads)
    /\ origin' = Remember(origin, <<>>, timers, reads)
    /\ emitted' = <<>>
    /\ call' = Call("shutdown", 0, "ok")
    /\ UNCHANGED <<nextId, timers, reads, updates>>

(***************************************************************************)
(* AnalysisEngine.                                                         *)
(*                                                                         *)
(* Strings of the model as String.prototype.toLowerCase and                *)
(* String.prototype.includes see them.                                     *)
(***************************************************************************)
lowerOf(s) ==
    CASE s = "Suspicious activity reported in sector 7"
            -> "suspicious activity reported in sector 7"
      [] s = "Cybersecurity incident at major corporation"
            -> "cybersecurity incident at major corporation"
      [] s = "New vulnerability discovered in popular software"
            -> "new vulnerability discovered in popular software"
      [] s = "Data BREACH at vendor" -> "data breach at vendor"
      [] OTHER -> s

\* s.includes(keyword) for a lower-case s of the model
includes(s, keyword) ==
    <<s, keyword>> \in
        {<<"suspicious activity reported in sector 7", "suspicious">>,
         <<"new vulnerability discovered in popular software", "vulnerability">>,
         <<"data breach at vendor", "breach">>,
         <<"attack", "attack">>,
         <<"malicious", "malicious">>}

IsString(v) == "str" \in DOMAIN v

AnalysisTypes ==
    {"threat-detection", "pattern-analysis", "anomaly-detection", "correlation-analysis"}
Severities == {"low", "medium", "high", "critical"}

isKnownMaliciousIP(ip) ==
    ip \in {Str("203.0.113.45"), Str("198.51.100.23"), Str("192.0.2.100")}

containsSuspiciousKeywords(content) ==
    \E keyword \in {"suspicious", "malicious", "attack", "breach", "vulnerability"} :
        includes(lowerOf(content.str), keyword)

isUnusualPort(port) ==
    port \notin {Num(80), Num(443), Num(22), Num(21), Num(25), Num(53), Num(110),
                 Num(143), Num(993), Num(995)}

\* isSuspiciousActivity raises a TypeError on a null record, and on a truthy
\* content that is no string once the sourceIP rule has not matched
Throws(item) ==
    \/ item = JsNull
    \/ /\ ~(Truthy(Get(item, "sourceIP")) /\ isKnownMaliciousIP(Get(item, "sourceIP")))
       /\ Truthy(Get(item, "content"))
       /\ ~IsString(Get(item, "content"))

\* one of the four rules of isSuspiciousActivity matches
MatchesRule(item) ==
    \/ Truthy(Get(item, "sourceIP")) /\ isKnownMaliciousIP(Get(item, "sourceIP"))
    \/ Truthy(Get(item, "content")) /\ containsSuspiciousKeywords(Get(item, "content"))
    \/ Truthy(Get(item, "port")) /\ isUnusualPort(Get(item, "port"))
    \/ Get(item, "type") = Str("malware")

\* random: whether Math.random() < 0.1 in this call
isSuspiciousActivity(item, random) == MatchesRule(item) \/ random

calculateThreatSeverity(item) ==
    IF Get(item, "type") = Str("malware") \/ Get(item, "severity") = Str("high")
    THEN "critical"
    ELSE IF Get(item, "status") = Str("blocked") \/ Get(item, "severity") = Str("medium")
    THEN "high"
    ELSE IF Truthy(Get(item, "port")) /\ isUnusualPort(Get(item, "port"))
    THEN "medium"
    ELSE "low"

\* a value inside a template literal
textOf(v) == IF IsString(v) THEN v.str ELSE IF "num" \in DOMAIN v THEN ToString(v.num) ELSE "undefined"

generateThreatRecommendations(item) ==
    (IF Truthy(Get(item, "sourceIP"))
     THEN <<"Block IP address " \o textOf(Get(item, "sourceIP")),
            "Monitor network traffic for similar patterns">>
     ELSE <<>>)
    \o (IF Get(item, "type") = Str("malware")
        THEN <<"Run full system scan", "Update antivirus definitions",
               "Isolate affected systems">>
        ELSE <<>>)
    \o <<"Investigate further", "Document incident">>

\* an AnalysisResult; confidence is in hundredths, the timestamp is left out
Finding(id, type, title, severity, confidence, evidence, recommendations) ==
    [id |-> id, type |-> type, title |-> title, severity |-> severity,
     confidence |-> confidence, evidence |-> evidence,
     recommendations |-> recommendations]

generateSampleThreats ==
    << Finding("threat-sample-1", "threat", "Malicious IP Activity", "high", 92,
               << [sourceIP |-> Str("203.0.113.45"), attempts |-> Num(15)] >>,
               <<"Block IP address", "Monitor for similar activity">>),
       Finding("threat-sample-2", "threat", "Suspicious File Hash", "critical", 98,
               << [hash |-> Str("abc123def456"), filename |-> Str("suspicious.exe")] >>,
               <<"Quarantine file", "Run full system scan">>),
       Finding("threat-sample-3", "threat", "Unusual Port Activity", "medium", 75,
               << [port |-> Num(8888), protocol |-> Str("TCP")] >>,
               <<"Investigate port usage", "Review firewall rules">>) >>

\* what Math.random gives a call: per record, whether the 10% branch fires
\* and the confidence drawn (0.7 + Math.random() * 0.3, in hundredths)
ConfidenceDraws == {70, 99}
Draws(d) == [1..Len(d) -> [suspicious : BOOLEAN, confidence : ConfidenceDraws]]

\* slice(from, to) of JavaScript, 0-based and end-exclusive
slice(s, from, to) ==
    LET lo == IF from < Len(s) THEN from ELSE Len(s)
        hi == IF to < Len(s) THEN to ELSE Len(s)
    IN IF hi <= lo THEN <<>> ELSE [i \in 1..(hi - lo) |-> s[lo + i]]

\* a variant of runThreatDetection without the canned findings: no record
\* flagged gives no finding
runThreatDetection_NoFallback(d, draws) ==
    LET flagged == SelectSeq([i \in 1..Len(d) |-> i],
                             LAMBDA i : isSuspiciousActivity(d[i], draws[i].suspicious))
    IN [j \in 1..Len(flagged) |->
            Finding("threat-" \o ToString(flagged[j] - 1), "threat",
                    "Suspicious Activity Detected",
                    calculateThreatSeverity(d[flagged[j]]),
                    draws[flagged[j]].confidence,
                    <<d[flagged[j]]>>,
                    generateThreatRecommendations(d[flagged[j]]))]

runThreatDetection(d, draws) ==
    LET flagged == SelectSeq([i \in 1..Len(d) |-> i],
                             LAMBDA i : isSuspiciousActivity(d[i], draws[i].suspicious))
        found == [j \in 1..Len(flagged) |->
                    Finding("threat-" \o ToString(flagged[j] - 1), "threat",
                            "Suspicious Activity Detected",
                            calculateThreatSeverity(d[flagged[j]]),
                            draws[flagged[j]].confidence,
                            <<d[flagged[j]]>>,
                            generateThreatRecommendations(d[flagged[j]]))]
    IN IF Len(found) = 0 THEN generateSampleThreats ELSE found

runPatternAnalysis(d) ==
    << Finding("pattern-0", "pattern", "Pattern Identified: Repeated Access Attempts",
               "medium", 85, slice(d, 0, 3),
               <<"Implement rate limiting", "Monitor source IP">>),
       Finding("pattern-1", "pattern", "Pattern Identified: Time-based Pattern",
               "low", 72, slice(d, 1, 4),
               <<"Review access policies", "Implement time-based restrictions">>) >>

runAnomalyDetection(d) ==
    << Finding("anomaly-0", "anomaly", "Anomaly Detected: Traffic Volume Spike",
               "medium", 78, slice(d, 0, 2),
               <<"Investigate traffic source", "Check for DDoS attack">>),
       Finding("anomaly-1", "anomaly", "Anomaly Detected: Unusual User Behavior",
               "low", 65, slice(d, 2, 5),
               <<"Verify user identity", "Review access logs">>) >>

runCorrelationAnalysis(d) ==
    << Finding("correlation-0", "correlation", "Correlation Found: Multi-source Threat",
               "high", 88, slice(d, 0, 4),
               <<"Coordinate response", "Check all related systems">>) >>

\* a variant of the switch whose default case returns no findings instead
\* of raising
runStrategy_UnknownTypeYieldsNothing(d, config, draws) ==
    CASE config.type = "threat-detection" ->
            IF \E i \in 1..Len(d) : Throws(d[i])
            THEN Fail("TypeError")
            ELSE Ok(runThreatDetection(d, draws))
      [] config.type = "pattern-analysis" -> Ok(runPatternAnalysis(d))
      [] config.type = "anomaly-detection" -> Ok(runAnomalyDetection(d))
      [] config.type = "correlation-analysis" -> Ok(runCorrelationAnalysis(d))
      [] OTHER -> Ok(<<>>)

\* the switch of runAnalysis: the strategy's findings, or the error raised
runStrategy(d, config, draws) ==
    CASE config.type = "threat-detection" ->
            IF \E i \in 1..Len(d) : Throws(d[i])
            THEN Fail("TypeError")
            ELSE Ok(runThreatDetection(d, draws))
      [] config.type = "pattern-analysis" -> Ok(runPatternAnalysis(d))
      [] config.type = "anomaly-detection" -> Ok(runAnomalyDetection(d))
      [] config.type = "correlation-analysis" -> Ok(runCorrelationAnalysis(d))
      [] OTHER -> Fail("Unknown analysis type")

\* a variant of the post-filter that keeps every finding
filterBySeverity_KeepsAll(found, config) == found

\* config.severityFilter && config.severityFilter !== 'all' ? filter : results
\* (an absent severityFilter is "undefined")
filterBySeverity(found, config) ==
    IF config.severityFilter \notin {"undefined", "", "all"}
    THEN SelectSeq(found, LAMBDA r : r.severity = config.severityFilter)
    ELSE found

\* a variant of the threat count that counts every finding
countThreats_CountsAll(found) == Len(found)

countThreats(found) ==
    Len(SelectSeq(found, LAMBDA r : r.type = "threat" \/ r.severity = "critical"
                                       \/ r.severity = "high"))

(***************************************************************************)
(* State of AnalysisEngine.  A runAnalysis call is suspended at            *)
(* `await this.delay(...)`; the calls suspended are in analyses, each with *)
(* the arguments it was given and the number n of its issue.               *)
(***************************************************************************)
VARIABLES
    results,      \* AnalysisEngine.results
    threatCount,  \* AnalysisEngine.threatCount
    analyses,     \* suspended runAnalysis calls: [n, data, config]
    issued,       \* how many runAnalysis calls were issued
    lastOk,       \* history: the call that resolved last, [n, returned], the
                  \* number prev of the one that resolved before it, and
                  \* whether that one had returned something else
    engEmitted,   \* the events the last step of the engine emitted
    engCall       \* the last step of the engine: [op, n, config, data, flagged,
                  \* outcome, returned]; flagged counts the records that
                  \* isSuspiciousActivity flagged in the call

engVars == <<results, threatCount, analyses, issued, lastOk, engEmitted, engCall>>

NoConfig == [type |-> "none", severityFilter |-> "undefined"]
EngCall(op, n, config, d, flagged, outcome, returned) ==
    [op |-> op, n |-> n, config |-> config, data |-> d, flagged |-> flagged,
     outcome |-> outcome, returned |-> returned]

\* how many records of a threat-detection run isSuspiciousActivity flags
Flagged(d, config, draws) ==
    IF config.type = "threat-detection" /\ ~(\E i \in 1..Len(d) : Throws(d[i]))
    THEN Cardinality({i \in 1..Len(d) : isSuspiciousActivity(d[i], draws[i].suspicious)})
    ELSE 0

\* no call has resolved since construction or the last shutdown
NoneResolved == [n |-> 0, returned |-> <<>>, prev |-> 0, replaced |-> FALSE]

EngineInit ==
    /\ results = <<>>
    /\ threatCount = 0
    /\ analyses = {}
    /\ issued = 0
    /\ lastOk = NoneResolved
    /\ engEmitted = <<>>
    /\ engCall = EngCall("none", 0, NoConfig, <<>>, 0, "ok", <<>>)

getLatestResults == results

getThreatCount == threatCount

\* runAnalysis up to its await: analysisStarted is emitted, the call suspends
runAnalysisStart(n, d, config) ==
    /\ analyses' = analyses \cup {[n |-> n, data |-> d, config |-> config]}
    /\ issued' = n
    /\ engEmitted' = <<"analysisStarted">>
    /\ engCall' = EngCall("runAnalysisStart", n, config, d, 0, "pending", <<>>)
    /\ UNCHANGED <<results, threatCount, lastOk>>

\* a variant that accumulates: this.results.push(...filteredResults)
publishResults_Accumulates(old, filtered) == old \o filtered

\* this.results = filteredResults
publishResults(old, filtered) == filtered

\* runAnalysis after its await
runAnalysisResume(c, draws) ==
    /\ c \in analyses
    /\ analyses' = analyses \ {c}
    /\ LET ran == runStrategy(c.data, c.config, draws)
           filteredResults == filterBySeverity(ran.recs, c.config)
       IN IF ran.ok
          THEN /\ threatCount' = countThreats(filteredResults)
               /\ results' = publishResults(results, filteredResults)
               /\ engEmitted' = <<"analysisCompleted">>
               /\ lastOk' = [n |-> c.n, returned |-> filteredResults,
                              prev |-> lastOk.n,
                              replaced |-> lastOk.n # 0
                                           /\ lastOk.returned # filteredResults]
               /\ engCall' = EngCall("runAnalysis", c.n, c.config, c.data,
                                     Flagged(c.data, c.config, draws), "ok",
                                     filteredResults)
          ELSE /\ results' = results
               /\ threatCount' = threatCount
               /\ engEmitted' = <<"analysisError">>
               /\ lastOk' = lastOk
               /\ engCall' = EngCall("runAnalysis", c.n, c.config, c.data, 0, ran.err,
                                     <<>>)
    /\ UNCHANGED issued

\* AnalysisEngine.shutdown; the calls suspended stay suspended
engineShutdown ==
    /\ results' = <<>>
    /\ threatCount' = 0
    /\ lastOk' = NoneResolved
    /\ engEmitted' = <<>>
    /\ engCall' = EngCall("shutdown", 0, NoConfig, <<>>, 0, "ok", <<>>)
    /\ UNCHANGED <<analyses, issued>>

(***************************************************************************)
(* ReportGenerator.                                                        *)
(***************************************************************************)
ReportTypes ==
    {"executive-summary", "technical-analysis", "threat-assessment", "incident-report"}
ReportFormats == {"pdf", "html", "json"}

\* Array.from(new Set(s)): the distinct elements in order of first occurrence
RECURSIVE UniqueSeq(_)
UniqueSeq(s) ==
    IF s = <<>>
    THEN <<>>
    ELSE LET front == UniqueSeq(SubSeq(s, 1, Len(s) - 1))
             x == s[Len(s)]
         IN IF \E i \in 1..Len(front) : front[i] = x THEN front ELSE Append(front, x)

\* the values one record adds to the Set of getUniqueDataSources
SourcesOfItem(item) ==
    (IF Truthy(Get(item, "source")) THEN <<Get(item, "source")>> ELSE <<>>)
    \o (IF Truthy(Get(item, "sourceIP")) THEN <<Get(item, "sourceIP")>> ELSE <<>>)

\* getUniqueDataSources raises a TypeError on a null record
UniqueSourcesThrows(d) == \E i \in 1..Len(d) : d[i] = JsNull

\* a variant of getUniqueDataSources that counts a value once per record
getUniqueDataSources_KeepsDuplicates(d) ==
    Flatten([i \in 1..Len(d) |-> SourcesOfItem(d[i])])

getUniqueDataSources(d) ==
    UniqueSeq(Flatten([i \in 1..Len(d) |-> SourcesOfItem(d[i])]))

CountSeverity(found, severity) ==
    Len(SelectSeq(found, LAMBDA r : r.severity = severity))

\* a variant whose second threshold is `highCount >= 2`
calculateOverallThreatLevel_TwoHighIsHigh(found) ==
    LET criticalCount == CountSeverity(found, "critical")
        highCount == CountSeverity(found, "high")
        mediumCount == CountSeverity(found, "medium")
    IN IF criticalCount > 0 THEN "critical"
       ELSE IF highCount >= 2 THEN "high"
       ELSE IF highCount > 0 \/ mediumCount > 3 THEN "medium"
       ELSE "low"

calculateOverallThreatLevel(found) ==
    LET criticalCount == CountSeverity(found, "critical")
        highCount == CountSeverity(found, "high")
        mediumCount == CountSeverity(found, "medium")
    IN IF criticalCount > 0 THEN "critical"
       ELSE IF highCount > 2 THEN "high"
       ELSE IF highCount > 0 \/ mediumCount > 3 THEN "medium"
       ELSE "low"

\* the recommendations of the findings, distinct, the first n of them
TopRecommendations(found, n) ==
    slice(UniqueSeq(Flatten([i \in 1..Len(found) |-> found[i].recommendations])), 0, n)

(***************************************************************************)
(* The four narrative templates.  A narrative is kept as the values its    *)
(* template interpolates, section by section, not as the rendered text.    *)
(***************************************************************************)
generateExecutiveSummary(found, d) ==
    [template |-> "executive-summary",
     dataSources |-> Len(getUniqueDataSources(d)),
     threatLevel |-> calculateOverallThreatLevel(found),
     criticalThreats |-> CountSeverity(found, "critical"),
     highThreats |-> CountSeverity(found, "high"),
     totalFindings |-> Len(found),
     highRiskItems |-> CountSeverity(found, "critical") + CountSeverity(found, "high"),
     recommendations |-> TopRecommendations(found, 5)]

generateTechnicalAnalysis(found, d) ==
    [template |-> "technical-analysis",
     dataSources |-> getUniqueDataSources(d),
     detailedFindings |->
        [i \in 1..Len(slice(found, 0, 10)) |->
            [title |-> found[i].title, severity |-> found[i].severity,
             confidence |-> found[i].confidence]],
     mitigations |-> TopRecommendations(found, 8)]

generateThreatAssessment(found, d) ==
    LET threats == SelectSeq(found, LAMBDA r : r.type = "threat")
    IN [template |-> "threat-assessment",
        threats |-> Len(threats),
        severityDistribution |->
            [sev \in {threats[i].severity : i \in 1..Len(threats)} |->
                CountSeverity(threats, sev)],
        defenses |-> TopRecommendations(threats, 6)]

\* a variant of generateIncidentReport whose incidents are the critical
\* findings only
generateIncidentReport_CriticalOnly(found, d) ==
    LET incidents == SelectSeq(found, LAMBDA r : r.severity = "critical")
    IN [template |-> "incident-report",
        incidents |-> Len(incidents),
        timeline |-> [i \in 1..Len(incidents) |-> incidents[i].title],
        criticalIncidents |-> CountSeverity(incidents, "critical"),
        responseActions |-> TopRecommendations(incidents, 5)]

generateIncidentReport(found, d) ==
    LET incidents == SelectSeq(found, LAMBDA r : r.severity = "critical"
                                                \/ r.severity = "high")
    IN [template |-> "incident-report",
        incidents |-> Len(incidents),
        timeline |-> [i \in 1..Len(incidents) |-> incidents[i].title],
        criticalIncidents |-> CountSeverity(incidents, "critical"),
        responseActions |-> TopRecommendations(incidents, 5)]

NoContent == [template |-> "none"]

\* the first switch of generateReport
generateContent(config, found, d) ==
    CASE config.type = "executive-summary" -> Ok(generateExecutiveSummary(found, d))
      [] config.type = "technical-analysis" -> Ok(generateTechnicalAnalysis(found, d))
      [] config.type = "threat-assessment" -> Ok(generateThreatAssessment(found, d))
      [] config.type = "incident-report" -> Ok(generateIncidentReport(found, d))
      [] OTHER -> Fail("Unknown report type")

\* JSON.stringify of a record and of an array of records, as the document
\* that JSON.parse reads from the text: a property whose value is undefined
\* is left out, null stays null
stringifyObject(obj) ==
    IF obj = JsNull
    THEN JsNull
    ELSE [k \in {k \in DOMAIN obj : obj[k] # Undefined} |-> obj[k]]

stringifyArray(objs) == [i \in 1..Len(objs) |-> stringifyObject(objs[i])]

\* JSON.stringify of an AnalysisResult: every property is set, its evidence
\* is an array of records
stringifyFinding(r) == [r EXCEPT !.evidence = stringifyArray(r.evidence)]

\* JSON.stringify of a Report: downloadUrl is left out while it is not set
stringifyReport(report) ==
    IF report.downloadUrl = Undefined
    THEN [k \in DOMAIN report \ {"downloadUrl"} |-> report[k]]
    ELSE report

\* the blob behind the handle generateJSON returns: the report as it is at
\* that point (no downloadUrl yet), the findings and the source count
generateJSON(report, found, d) ==
    [kind |-> "json",
     document |-> [report |-> stringifyReport(report),
                   analysisResults |-> [i \in 1..Len(found) |-> stringifyFinding(found[i])],
                   dataSourcesCount |-> Len(getUniqueDataSources(d))]]

generateHTML(report) == [kind |-> "html", title |-> report.title, content |-> report.content]

generatePDF(report) == [kind |-> "pdf", title |-> report.title, content |-> report.content]

\* the report object before its content is generated
NewReport(id, config, found, d) ==
    [id |-> id,
     title |-> IF config.title \in {"undefined", ""}
               THEN config.type \o " Report" ELSE config.title,
     type |-> config.type,
     format |-> config.format,
     content |-> NoContent,
     downloadUrl |-> Undefined,
     metadata |-> [analysisResultsCount |-> Len(found),
                   dataSourcesCount |-> Len(getUniqueDataSources(d)),
                   threatLevel |-> calculateOverallThreatLevel(found)]]

(***************************************************************************)
(* State of ReportGenerator.  A generateReport call of format pdf is       *)
(* suspended at `await this.generatePDF(report)`.                          *)
(***************************************************************************)
VARIABLES
    reports,      \* ReportGenerator.reports, the history
    painting,     \* suspended generateReport calls of format pdf: their report objects
    created,      \* how many Report objects got past both switches
    repEmitted,   \* the events the last step of the compiler emitted
    repCall       \* the last step of the compiler: [op, config, found, data, outcome]

repVars == <<reports, painting, created, repEmitted, repCall>>

NoReportConfig == [type |-> "none", format |-> "none", title |-> "undefined"]
RepCall(op, config, found, d, outcome) ==
    [op |-> op, config |-> config, found |-> found, data |-> d, outcome |-> outcome]

ReportsInit ==
    /\ reports = <<>>
    /\ painting = {}
    /\ created = 0
    /\ repEmitted = <<>>
    /\ repCall = RepCall("none", NoReportConfig, <<>>, <<>>, "ok")

getReports == reports

getReportCount == Len(reports)

\* a variant that puts the report first: this.reports.unshift(report)
pushReport_Unshifts(history, report) == <<report>> \o history

\* this.reports.push(report)
pushReport(history, report) == Append(history, report)

\* a variant of the catch block that raises the error again and emits nothing
reportFails_NoEvent(config, found, d, err) ==
    /\ repEmitted' = <<>>
    /\ repCall' = RepCall("generateReport", config, found, d, err)
    /\ UNCHANGED <<reports, painting, created>>

\* the catch block: reportError is emitted, the error is raised again
reportFails(config, found, d, err) ==
    /\ repEmitted' = <<"reportError">>
    /\ repCall' = RepCall("generateReport", config, found, d, err)
    /\ UNCHANGED <<reports, painting, created>>

\* generateReport up to its return, or up to its await when the format is pdf
generateReport(config, found, d) ==
    IF UniqueSourcesThrows(d)
    THEN reportFails(config, found, d, "TypeError")
    ELSE LET content == generateContent(config, found, d)
             report == [NewReport(created + 1, config, found, d)
                            EXCEPT !.content = content.recs]
         IN IF ~content.ok
            THEN reportFails(config, found, d, content.err)
            ELSE IF config.format \notin ReportFormats
            THEN reportFails(config, found, d, "Unknown report format")
            ELSE /\ created < MaxReports
                 /\ created' = created + 1
                 /\ IF config.format = "pdf"
                    THEN /\ painting' = painting \cup
                                {[report EXCEPT !.downloadUrl = generatePDF(report)]}
                         /\ repEmitted' = <<>>
                         /\ repCall' = RepCall("generateReport", config, found, d, "pending")
                         /\ UNCHANGED reports
                    ELSE /\ reports' = pushReport(reports,
                                [report EXCEPT !.downloadUrl =
                                    IF config.format = "html"
                                    THEN generateHTML(report)
                                    ELSE generateJSON(report, found, d)])
                         /\ repEmitted' = <<"reportGenerated">>
                         /\ repCall' = RepCall("generateReport", config, found, d, "ok")
                         /\ UNCHANGED painting

\* a variant of generateReportResume that puts the report where its call
\* was issued: before the reports of the calls issued after it
generateReportResume_InIssueOrder(report) ==
    /\ report \in painting
    /\ painting' = painting \ {report}
    /\ reports' = SelectSeq(reports, LAMBDA r : r.id < report.id)
                  \o <<report>>
                  \o SelectSeq(reports, LAMBDA r : r.id > report.id)
    /\ repEmitted' = <<"reportGenerated">>
    /\ repCall' = RepCall("generateReport",
                          [type |-> report.type, format |-> report.format,
                           title |-> report.title], <<>>, <<>>, "ok")
    /\ UNCHANGED created

\* a variant of generateReportResume that counts the findings again when
\* the painting is over, in the results the engine holds by then
generateReportResume_CountsLatest(report) ==
    /\ report \in painting
    /\ painting' = painting \ {report}
    /\ reports' = pushReport(reports,
                        [report EXCEPT !.metadata.analysisResultsCount = Len(results)])
    /\ repEmitted' = <<"reportGenerated">>
    /\ repCall' = RepCall("generateReport",
                          [type |-> report.type, format |-> report.format,
                           title |-> report.title], <<>>, <<>>, "ok")
    /\ UNCHANGED created

\* generateReport after `await this.generatePDF(report)`
generateReportResume(report) ==
    /\ report \in painting
    /\ painting' = painting \ {report}
    /\ reports' = pushReport(reports, report)
    /\ repEmitted' = <<"reportGenerated">>
    /\ repCall' = RepCall("generateReport",
                          [type |-> report.type, format |-> report.format,
                           title |-> report.title], <<>>, <<>>, "ok")
    /\ UNCHANGED created

\* ReportGenerator.shutdown; a call suspended in its painting stays suspended
reportsShutdown ==
    /\ reports' = <<>>
    /\ repEmitted' = <<>>
    /\ repCall' = RepCall("shutdown", NoReportConfig, <<>>, <<>>, "ok")
    /\ UNCHANGED <<painting, created>>

(***************************************************************************)
(* EventEmitter.  events maps an event name to its listener array, when it *)
(* has one.  A listener is a function of the environment: it has an        *)
(* identity (its name), it may raise, and it may call off(event, itself)   *)
(* before it returns or raises.                                            *)
(***************************************************************************)
VARIABLES
    events,     \* EventEmitter.events: name -> [present, listeners]
    emitCall    \* the last step of the emitter: [op, event, before, invoked,
                \* outcome]; before is the listener array when emit started,
                \* invoked the listeners emit called, in order

emVars == <<events, emitCall>>

EventNames == {"sourceAdded", "sourceRemoved"}

Listeners ==
    {[name |-> "render", raises |-> FALSE, does |-> "nothing"],
     [name |-> "faulty", raises |-> TRUE, does |-> "nothing"],
     [name |-> "once", raises |-> TRUE, does |-> "offSelf"]}

NoListeners == [present |-> FALSE, listeners |-> <<>>]

EmitCall(op, event, before, invoked, outcome) ==
    [op |-> op, event |-> event, before |-> before, invoked |-> invoked,
     outcome |-> outcome]

EmitterInit ==
    /\ events = [e \in EventNames |-> NoListeners]
    /\ emitCall = EmitCall("none", "none", <<>>, <<>>, "returned")

\* how many listeners the emitter holds
TotalListeners ==
    LET names == CHOOSE q \in [1..Cardinality(EventNames) -> EventNames] :
                    {q[i] : i \in DOMAIN q} = EventNames
    IN Len(Flatten([i \in DOMAIN names |-> events[names[i]].listeners]))

\* listeners.indexOf(listener): 0 when absent
indexOf(listeners, listener) ==
    IF \E i \in 1..Len(listeners) : listeners[i] = listener
    THEN CHOOSE i \in 1..Len(listeners) :
            /\ listeners[i] = listener
            /\ \A j \in 1..(i - 1) : listeners[j] # listener
    ELSE 0

\* listeners.splice(index, 1)
splice(listeners, index) ==
    [i \in 1..(Len(listeners) - 1) |->
        IF i < index THEN listeners[i] ELSE listeners[i + 1]]

\* the listener array after off(event, listener)
without(listeners, listener) ==
    IF indexOf(listeners, listener) > 0
    THEN splice(listeners, indexOf(listeners, listener))
    ELSE listeners

on(event, listener) ==
    /\ TotalListeners < MaxListeners
    /\ events' = [events EXCEPT ![event] =
                    [present |-> TRUE, listeners |-> Append(@.listeners, listener)]]
    /\ emitCall' = EmitCall("on", event, <<>>, <<>>, "returned")

off(event, listener) ==
    /\ events' = IF events[event].present
                 THEN [events EXCEPT ![event].listeners = without(@, listener)]
                 ELSE events
    /\ emitCall' = EmitCall("off", event, <<>>, <<>>, "returned")

\* a variant of the callback of emit without its try/catch
listenerCall_NoCatch(listener) == IF listener.raises THEN "thrown" ELSE "done"

\* try { listener(...args) } catch (error) { console.error(...) }
listenerCall(listener) == IF listener.raises THEN "logged" ELSE "done"

\* what the body of a listener does to the array of its event
listenerEffect(listeners, listener) ==
    IF listener.does = "offSelf" THEN without(listeners, listener) ELSE listeners

\* listeners.forEach(callback) from index k on: len is the length the array
\* had when forEach started, an index the array no longer has is skipped
RECURSIVE forEach(_, _, _, _)
forEach(listeners, k, len, invoked) ==
    IF k > len
    THEN [listeners |-> listeners, invoked |-> invoked, outcome |-> "returned"]
    ELSE IF k > Len(listeners)
    THEN forEach(listeners, k + 1, len, invoked)
    ELSE IF listenerCall(listeners[k]) = "thrown"
    THEN [listeners |-> listenerEffect(listeners, listeners[k]),
          invoked |-> Append(invoked, listeners[k].name), outcome |-> "thrown"]
    ELSE forEach(listenerEffect(listeners, listeners[k]), k + 1, len,
                 Append(invoked, listeners[k].name))

emit(event) ==
    IF events[event].present
    THEN LET before == events[event].listeners
             ran == forEach(before, 1, Len(before), <<>>)
         IN /\ events' = [events EXCEPT ![event].listeners = ran.listeners]
            /\ emitCall' = EmitCall("emit", event, before, ran.invoked, ran.outcome)
    ELSE /\ events' = events
         /\ emitCall' = EmitCall("emit", event, <<>>, <<>>, "returned")

\* removeAllListeners(event)
removeListenersOf(event) ==
    /\ events' = [events EXCEPT ![event] = NoListeners]
    /\ emitCall' = EmitCall("removeAllListeners", event, <<>>, <<>>, "returned")

\* removeAllListeners()
removeAllListeners ==
    /\ events' = [e \in EventNames |-> NoListeners]
    /\ emitCall' = EmitCall("removeAllListeners", "undefined", <<>>, <<>>, "returned")

(***************************************************************************)
(* State of IntelligenceReportGenerator, the orchestrator, and of the      *)
(* UIManager it registers its handlers with.  initialize and shutdown are  *)
(* async functions: a call runs up to its next await in one step.  Of the  *)
(* DataSourceManager the orchestrator's life cycle is given the sources    *)
(* Map alone, each source by name and status (registered), as the three    *)
(* sample sources of one initialize do not fit the references of IDS.      *)
(***************************************************************************)
VARIABLES
    isInitialized,          \* IntelligenceReportGenerator.isInitialized
    initializedComponents,  \* the components whose own isInitialized is true
    lifecycle,              \* suspended initialize and shutdown calls: [n, op, at]
    lifecycleLog,           \* history: the initialize and shutdown calls issued
    uiHandlers,             \* UIManager.events: UI event -> listener array
    registered,             \* DataSourceManager.sources: [name, status] per source
    initializedCount,       \* history: how often the orchestrator emitted initialized
    uiCall                  \* the last UI event: [event, invoked, issued]

orcVars == <<isInitialized, initializedComponents, lifecycle, lifecycleLog, uiHandlers,
             registered, initializedCount, uiCall>>

Components == {"dataSourceManager", "analysisEngine", "reportGenerator", "uiManager"}

UIEvents == {"navigationChange", "fileUpload", "analysisRun", "reportGenerate"}

\* the list of addSampleDataSources
sampleSources ==
    << [name |-> "OSINT Feed Alpha", type |-> "osint", status |-> "active"],
       [name |-> "Network Security Logs", type |-> "network", status |-> "active"],
       [name |-> "Threat Intelligence Feed", type |-> "threat", status |-> "inactive"] >>

\* the component call that the orchestrator's handler of a UI event issues
\* before its first await
HandlerCall ==
    [navigationChange |-> "none", fileUpload |-> "addFileSource",
     analysisRun |-> "runAnalysis", reportGenerate |-> "generateReport"]

UiCall(event, invoked, calls) == [event |-> event, invoked |-> invoked, issued |-> calls]

OrchestratorInit ==
    /\ isInitialized = FALSE
    /\ initializedComponents = {}
    /\ lifecycle = {}
    /\ lifecycleLog = <<>>
    /\ uiHandlers = [e \in UIEvents |-> <<>>]
    /\ registered = <<>>
    /\ initializedCount = 0
    /\ uiCall = UiCall("none", <<>>, <<>>)

\* a handler that setupUIHandlers registers: an async arrow function, which
\* raises nothing to emit and leaves the listener array alone; n is the
\* initialize call that created it
UiHandler(n) == [name |-> n, raises |-> FALSE, does |-> "nothing"]

\* setupUIHandlers(): one uiManager.on... call per UI event
setupUIHandlers(n) ==
    uiHandlers' = [e \in UIEvents |-> Append(uiHandlers[e], UiHandler(n))]

\* dataSourceManager.addSource(sampleSources[k]) as the sources Map shows it
addSampleSource(k) ==
    registered' = Append(registered, [name |-> sampleSources[k].name,
                                      status |-> sampleSources[k].status])

\* initialize() up to `await this.dataSourceManager.initialize()`
initializeStart ==
    /\ Len(lifecycleLog) < MaxLifecycle
    /\ lifecycleLog' = Append(lifecycleLog, "initialize")
    /\ IF isInitialized
       THEN UNCHANGED <<initializedComponents, lifecycle>>
       ELSE /\ initializedComponents' = initializedComponents \cup {"dataSourceManager"}
            /\ lifecycle' = lifecycle \cup
                    {[n |-> Len(lifecycleLog) + 1, op |-> "initialize", at |-> 1]}
    /\ UNCHANGED <<isInitialized, uiHandlers, registered, initializedCount, uiCall>>

\* initialize() from one await to the next: c.at is the await it resumes
\* from.  1..3: the next component's initialize(); 4: setupUIHandlers() and
\* the first addSource of addSampleDataSources; 5, 6: the next addSource;
\* 7: the loop is over, addSampleDataSources and loadInitialData return (the
\* dashboard is redrawn), isInitialized is set and initialized emitted.
initializeResume(c) ==
    /\ c \in lifecycle
    /\ c.op = "initialize"
    /\ lifecycle' = IF c.at = 7
                    THEN lifecycle \ {c}
                    ELSE (lifecycle \ {c}) \cup {[c EXCEPT !.at = c.at + 1]}
    /\ initializedComponents' =
            CASE c.at = 1 -> initializedComponents \cup {"analysisEngine"}
              [] c.at = 2 -> initializedComponents \cup {"reportGenerator"}
              [] c.at = 3 -> initializedComponents \cup {"uiManager"}
              [] OTHER -> initializedComponents
    /\ IF c.at = 4 THEN setupUIHandlers(c.n) ELSE uiHandlers' = uiHandlers
    /\ IF c.at \in 4..6 THEN addSampleSource(c.at - 3) ELSE registered' = registered
    /\ isInitialized' = IF c.at = 7 THEN TRUE ELSE isInitialized
    /\ initializedCount' = IF c.at = 7 THEN initializedCount + 1 ELSE initializedCount
    /\ UNCHANGED <<lifecycleLog, uiCall>>

\* shutdown() up to `await this.dataSourceManager.shutdown()`
shutdownStart ==
    /\ Len(lifecycleLog) < MaxLifecycle
    /\ lifecycleLog' = Append(lifecycleLog, "shutdown")
    /\ registered' = <<>>
    /\ initializedComponents' = initializedComponents \ {"dataSourceManager"}
    /\ lifecycle' = lifecycle \cup
            {[n |-> Len(lifecycleLog) + 1, op |-> "shutdown", at |-> 1]}
    /\ UNCHANGED <<isInitialized, uiHandlers, initializedCount, uiCall>>

\* shutdown() from one await to the next: analysisEngine.shutdown(),
\* reportGenerator.shutdown(), then isInitialized = false
shutdownResume(c) ==
    /\ c \in lifecycle
    /\ c.op = "shutdown"
    /\ lifecycle' = IF c.at = 3
                    THEN lifecycle \ {c}
                    ELSE (lifecycle \ {c}) \cup {[c EXCEPT !.at = c.at + 1]}
    /\ initializedComponents' =
            CASE c.at = 1 -> initializedComponents \ {"analysisEngine"}
              [] c.at = 2 -> initializedComponents \ {"reportGenerator"}
              [] OTHER -> initializedComponents
    /\ isInitialized' = IF c.at = 3 THEN FALSE ELSE isInitialized
    /\ UNCHANGED <<lifecycleLog, uiHandlers, registered, initializedCount, uiCall>>

\* the UIManager emits a UI event from a DOM listener of its initialize():
\* a task of its own, run when no continuation of a call is queued.  Every
\* handler of the event runs up to its first await, where it has issued
\* its component call.
uiEmit(event) ==
    /\ "uiManager" \in initializedComponents
    /\ lifecycle = {}
    /\ LET ran == forEach(uiHandlers[event], 1, Len(uiHandlers[event]), <<>>)
       IN uiCall' = UiCall(event, ran.invoked,
                           [i \in 1..Len(ran.invoked) |-> HandlerCall[event]])
    /\ UNCHANGED <<isInitialized, initializedComponents, lifecycle, lifecycleLog,
                   uiHandlers, registered, initializedCount>>

(***************************************************************************)
(* The orchestrator's handler of fileUpload, an async function: a run is   *)
(* suspended at `await this.dataSourceManager.addFileSource(file)`.        *)
(***************************************************************************)
VARIABLES
    upload      \* the last run of the handler: [files, at, ref, awaiting, state, refs]

upVars == <<upload>>

\* files: Array.from(files); at: the index of the file of the awaited call
\* (1-based); ref: the object that call created; awaiting: "pending" while
\* the call is suspended, then how it settled; state: "running", "done" (the
\* loop is over) or "failed" (the catch block ran); refs: history, the
\* objects the run's calls created, in call order
UploadRun(files, at, ref, awaiting, state, refs) ==
    [files |-> files, at |-> at, ref |-> ref, awaiting |-> awaiting, state |-> state,
     refs |-> refs]

UploadInit == upload = UploadRun(<<>>, 0, 0, "none", "none", <<>>)

\* the continuation of a settled call runs before any other task
NoContinuationQueued == ~(upload.state = "running" /\ upload.awaiting # "pending")

\* the handler up to its first await
uploadStart(files) ==
    /\ upload.state # "running"
    /\ nextId + Len(files) - 1 <= MaxIds
    /\ IF files = <<>>
       THEN /\ upload' = UploadRun(files, 0, 0, "none", "done", <<>>)
            /\ UNCHANGED regVars
       ELSE /\ addFileSourceStart(files[1])
            /\ upload' = UploadRun(files, 1, nextId, "pending", "running", <<nextId>>)

\* the addFileSource call that the handler awaits settles
uploadedFileSettles ==
    /\ upload.state = "running"
    /\ upload.awaiting = "pending"
    /\ \E rd \in reads :
            /\ rd.ref = upload.ref
            /\ addFileSourceResume(rd)
            /\ upload' = [upload EXCEPT !.awaiting =
                            IF parseFile(rd.file).ok THEN "resolved" ELSE "rejected"]

\* a variant of uploadContinue whose try/catch is inside the loop: a file
\* that fails is reported and the loop goes on
uploadContinue_CatchInsideLoop ==
    /\ upload.state = "running"
    /\ upload.awaiting # "pending"
    /\ IF upload.at < Len(upload.files)
       THEN /\ addFileSourceStart(upload.files[upload.at + 1])
            /\ upload' = [upload EXCEPT !.at = upload.at + 1, !.ref = nextId,
                                        !.awaiting = "pending",
                                        !.refs = Append(upload.refs, nextId)]
       ELSE /\ upload' = [upload EXCEPT !.state = "done"]
            /\ UNCHANGED regVars

\* the handler after its await: the catch block (showError) when the call
\* rejected, else the next file or the end of the loop
uploadContinue ==
    /\ upload.state = "running"
    /\ upload.awaiting # "pending"
    /\ IF upload.awaiting = "rejected"
       THEN /\ upload' = [upload EXCEPT !.state = "failed"]
            /\ UNCHANGED regVars
       ELSE IF upload.at < Len(upload.files)
       THEN /\ addFileSourceStart(upload.files[upload.at + 1])
            /\ upload' = [upload EXCEPT !.at = upload.at + 1, !.ref = nextId,
                                        !.awaiting = "pending",
                                        !.refs = Append(upload.refs, nextId)]
       ELSE /\ upload' = [upload EXCEPT !.state = "done"]
            /\ UNCHANGED regVars

(***************************************************************************)
(* The public runAnalysis and generateReport of the orchestrator: each     *)
(* reads the other components and passes what it read to the call.         *)
(***************************************************************************)
VARIABLES
    snapshots   \* history: per Report created, in creation order, the value of
                \* getLatestResults() that its generateReport call was given

snapVars == <<snapshots>>

SnapshotInit == snapshots = <<>>

\* runAnalysis(config) up to the await of AnalysisEngine.runAnalysis
orchestratorRunAnalysis(config) ==
    /\ issued < MaxRuns
    /\ runAnalysisStart(issued + 1, getAllData, config)

\* generateReport(config) up to the await of ReportGenerator.generateReport
orchestratorGenerateReport(config) ==
    LET analysisResults == getLatestResults
        d == getAllData
    IN /\ generateReport(config, analysisResults, d)
       /\ snapshots' = IF created' # created
                       THEN Append(snapshots, analysisResults)
                       ELSE snapshots

(***************************************************************************)
(* A pure function under check: its argument and its result.               *)
(***************************************************************************)
VARIABLES arg, ret

fnVars == <<arg, ret>>

vars == <<sources, data, heap, nextId, timers, reads, updates, origin, emitted, call,
          results, threatCount, analyses, issued, lastOk, engEmitted, engCall,
          reports, painting, created, repEmitted, repCall, events, emitCall,
          isInitialized, initializedComponents, lifecycle, lifecycleLog, uiHandlers,
          registered, initializedCount, uiCall, upload, snapshots, arg, ret>>

Init ==
    /\ RegistryInit
    /\ EngineInit
    /\ ReportsInit
    /\ EmitterInit
    /\ OrchestratorInit
    /\ UploadInit
    /\ SnapshotInit
    /\ arg = <<>>
    /\ ret = "none"

(***************************************************************************)
(* Spec: the source registry under every interleaving of its operations,   *)
(* its timers and its file reads.                                          *)
(***************************************************************************)
Next ==
    /\ \/ \E config \in SourceConfigs : addSource(config)
       \/ \E r \in IDS : TimerFires(r)
       \/ \E file \in Uploads : addFileSourceStart(file)
       \/ \E rd \in reads : addFileSourceResume(rd)
       \/ \E id \in IDS, upd \in SourceUpdates : updateSource(id, upd)
       \/ \E id \in IDS : removeSource(id)
       \/ registryShutdown
    /\ UNCHANGED <<engVars, repVars, emVars, orcVars, upVars, snapVars, fnVars>>

Spec == Init /\ [][Next]_vars

(***************************************************************************)
(* SpecIds: the source registry when generateId may return an id that it   *)
(* has returned before.                                                    *)
(***************************************************************************)
NextIds ==
    /\ \/ \E config \in SourceConfigs, id \in generateId : addSourceWithId(config, id)
       \/ \E r \in IDS : TimerFires(r)
       \/ \E file \in Uploads, id \in generateId : addFileSourceStartWithId(file, id)
       \/ \E rd \in reads : addFileSourceResume(rd)
       \/ \E id \in IDS, upd \in SourceUpdates : updateSource(id, upd)
       \/ \E id \in IDS : removeSource(id)
       \/ registryShutdown
    /\ UNCHANGED <<engVars, repVars, emVars, orcVars, upVars, snapVars, fnVars>>

SpecIds == Init /\ [][NextIds]_vars

(***************************************************************************)
(* SpecEngine: runAnalysis calls that overlap.  Up to MaxRuns calls are    *)
(* issued, each resumes when its delay has passed, in any order.           *)
(***************************************************************************)
BenignRecord == [id |-> Str("1"), port |-> Num(443), status |-> Str("allowed")]

OverlapData == {generateThreatData, <<JsNull>>}

OverlapConfigs ==
    {[type |-> "threat-detection", severityFilter |-> "all"],
     [type |-> "pattern-analysis", severityFilter |-> "medium"],
     [type |-> "data-mining", severityFilter |-> "all"]}

NextEngine ==
    /\ \/ /\ issued < MaxRuns
          /\ \E d \in OverlapData, config \in OverlapConfigs :
                runAnalysisStart(issued + 1, d, config)
       \/ \E c \in analyses : \E draws \in Draws(c.data) : runAnalysisResume(c, draws)
       \/ engineShutdown
    /\ UNCHANGED <<regVars, repVars, emVars, orcVars, upVars, snapVars, fnVars>>

SpecEngine == Init /\ [][NextEngine]_vars

(***************************************************************************)
(* SpecAnalysis: one runAnalysis call at a time, over every strategy and   *)
(* every severity filter.                                                  *)
(***************************************************************************)
AnalysisData ==
    {<<>>, <<BenignRecord>>, generateThreatData, <<BenignRecord, JsNull>>}

AnalysisConfigs ==
    [type : AnalysisTypes \cup {"data-mining"},
     severityFilter : Severities \cup {"all", "undefined", ""}]

NextAnalysis ==
    /\ \/ /\ analyses = {}
          /\ \E d \in AnalysisData, config \in AnalysisConfigs :
                runAnalysisStart(1, d, config)
       \/ \E c \in analyses : \E draws \in Draws(c.data) : runAnalysisResume(c, draws)
       \/ engineShutdown
    /\ UNCHANGED <<regVars, repVars, emVars, orcVars, upVars, snapVars, fnVars>>

SpecAnalysis == Init /\ [][NextAnalysis]_vars

(***************************************************************************)
(* SpecReports: generateReport calls, the pdf ones suspended while the     *)
(* document is painted, and shutdown.                                      *)
(***************************************************************************)
ReportConfigs ==
    {[type |-> "executive-summary", format |-> "html", title |-> "undefined"],
     [type |-> "incident-report", format |-> "json", title |-> "Weekly"],
     [type |-> "threat-assessment", format |-> "pdf", title |-> "undefined"],
     [type |-> "technical-analysis", format |-> "pdf", title |-> "Audit"],
     [type |-> "status-report", format |-> "html", title |-> "undefined"],
     [type |-> "executive-summary", format |-> "docx", title |-> "undefined"]}

\* the findings and the records a call is given: getLatestResults() and
\* getAllData() after an analysis of the demo records, and before any
\* analysis with a JSON file of content [null] uploaded
ReportInputs ==
    {[found |-> generateSampleThreats, data |-> generateNetworkData],
     [found |-> <<>>, data |-> <<JsNull>>]}

NextReports ==
    /\ \/ \E config \in ReportConfigs, input \in ReportInputs :
            generateReport(config, input.found, input.data)
       \/ \E report \in painting : generateReportResume(report)
       \/ reportsShutdown
    /\ UNCHANGED <<regVars, engVars, emVars, orcVars, upVars, snapVars, fnVars>>

SpecReports == Init /\ [][NextReports]_vars

(***************************************************************************)
(* SpecBoundary: the calls of AnalysisEngine and the calls of              *)
(* ReportGenerator.  The two objects share no field, so each is run with   *)
(* the other one as constructed.                                           *)
(***************************************************************************)
NextBoundary ==
    \/ /\ repCall.op = "none"
       /\ NextEngine
    \/ /\ engCall.op = "none"
       /\ NextReports

SpecBoundary == Init /\ [][NextBoundary]_vars

(***************************************************************************)
(* SpecAccessors: the source registry with the calls of its read           *)
(* accessors.  A call of an accessor is a step that leaves what it returns *)
(* in ret.  The registry's steps are those that add, fill and remove       *)
(* entries of its Maps; updateSource, which rewrites the fields of one     *)
(* source, is exercised in Spec.                                           *)
(***************************************************************************)
AccessorOps == {"getSources", "getSource", "getSourceData", "getAllData"}

getSourcesCall ==
    /\ ret' = getSources
    /\ call' = Call("getSources", 0, "ok")
    /\ emitted' = <<>>
    /\ UNCHANGED <<sources, data, heap, nextId, timers, reads, updates, origin>>

getSourceCall(id) ==
    /\ ret' = getSource(id)
    /\ call' = Call("getSource", id, "ok")
    /\ emitted' = <<>>
    /\ UNCHANGED <<sources, data, heap, nextId, timers, reads, updates, origin>>

\* a variant of getSourceData that registers the empty record set it returns
\* for an id with none
getSourceDataCall_Stores(id) ==
    /\ ret' = getSourceData(id)
    /\ call' = Call("getSourceData", id, "ok")
    /\ emitted' = <<>>
    /\ data' = MapSet(data, id, getSourceData(id))
    /\ UNCHANGED <<sources, heap, nextId, timers, reads, updates, origin>>

getSourceDataCall(id) ==
    /\ ret' = getSourceData(id)
    /\ call' = Call("getSourceData", id, "ok")
    /\ emitted' = <<>>
    /\ UNCHANGED <<sources, data, heap, nextId, timers, reads, updates, origin>>

getAllDataCall ==
    /\ ret' = getAllData
    /\ call' = Call("getAllData", 0, "ok")
    /\ emitted' = <<>>
    /\ UNCHANGED <<sources, data, heap, nextId, timers, reads, updates, origin>>

NextAccessors ==
    \/ /\ \/ \E config \in SourceConfigs : addSource(config)
          \/ \E r \in IDS : TimerFires(r)
          \/ \E file \in Uploads : addFileSourceStart(file)
          \/ \E rd \in reads : addFileSourceResume(rd)
          \/ \E id \in IDS : removeSource(id)
          \/ registryShutdown
       /\ UNCHANGED <<engVars, repVars, emVars, orcVars, upVars, snapVars, fnVars>>
    \/ /\ \/ getSourcesCall
          \/ \E id \in IDS : getSourceCall(id)
          \/ \E id \in IDS : getSourceDataCall(id)
          \/ getAllDataCall
       /\ UNCHANGED <<engVars, repVars, emVars, orcVars, upVars, snapVars, arg>>

SpecAccessors == Init /\ [][NextAccessors]_vars

(***************************************************************************)
(* SpecLifecycle: initialize and shutdown calls of the orchestrator, which *)
(* may overlap, and the UI events between them.                            *)
(***************************************************************************)
NextLifecycle ==
    /\ \/ initializeStart
       \/ \E c \in lifecycle : initializeResume(c)
       \/ shutdownStart
       \/ \E c \in lifecycle : shutdownResume(c)
       \/ \E event \in UIEvents : uiEmit(event)
    /\ UNCHANGED <<regVars, engVars, repVars, emVars, upVars, snapVars, fnVars>>

SpecLifecycle == Init /\ [][NextLifecycle]_vars

(***************************************************************************)
(* SpecUpload: runs of the fileUpload handler, one after the other, over   *)
(* every list of at most MaxFiles files, and the shutdown of the registry  *)
(* (the first thing that the orchestrator's shutdown does) at any moment.  *)
(***************************************************************************)
UploadLists == UNION {[1..n -> Files] : n \in 0..MaxFiles}

NextUpload ==
    /\ \/ \E files \in UploadLists : uploadStart(files)
       \/ uploadedFileSettles
       \/ uploadContinue
       \/ /\ NoContinuationQueued
          /\ registryShutdown
          /\ UNCHANGED upload
    /\ UNCHANGED <<engVars, repVars, emVars, orcVars, snapVars, fnVars>>

SpecUpload == Init /\ [][NextUpload]_vars

(***************************************************************************)
(* SpecSnapshot: runAnalysis and generateReport calls of the orchestrator  *)
(* that overlap, and the shutdown of the engine.  The registry is as       *)
(* constructed, so that getAllData() is empty and the strategies return    *)
(* their canned findings.                                                  *)
(***************************************************************************)
SnapshotAnalyses ==
    {[type |-> "threat-detection", severityFilter |-> "all"]}

SnapshotReports ==
    {[type |-> "threat-assessment", format |-> "pdf", title |-> "undefined"],
     [type |-> "incident-report", format |-> "json", title |-> "Weekly"]}

NextSnapshot ==
    \/ /\ \/ \E config \in SnapshotAnalyses : orchestratorRunAnalysis(config)
          \/ \E c \in analyses : \E draws \in Draws(c.data) : runAnalysisResume(c, draws)
          \/ engineShutdown
       /\ UNCHANGED <<regVars, repVars, emVars, orcVars, upVars, snapVars, fnVars>>
    \/ /\ \E config \in SnapshotReports : orchestratorGenerateReport(config)
       /\ UNCHANGED <<regVars, engVars, emVars, orcVars, upVars, fnVars>>
    \/ /\ \E report \in painting : generateReportResume(report)
       /\ UNCHANGED <<regVars, engVars, emVars, orcVars, upVars, snapVars, fnVars>>

SpecSnapshot == Init /\ [][NextSnapshot]_vars

(***************************************************************************)
(* SpecFair: the source registry and the analysis engine (the two share no *)
(* field, so each is run with the other one as constructed) when the       *)
(* platform does its part: a timer that is pending fires (setTimeout), the *)
(* text of a file that is read arrives (file.text()), the delay of an      *)
(* analysis passes (setTimeout in delay).  updateSource, which touches     *)
(* neither a timer nor a suspended call, is not called.                    *)
(***************************************************************************)
NextFair ==
    \/ /\ engCall.op = "none"
       /\ \/ \E config \in SourceConfigs : addSource(config)
          \/ \E r \in IDS : TimerFires(r)
          \/ \E file \in Uploads : addFileSourceStart(file)
          \/ \E rd \in reads : addFileSourceResume(rd)
          \/ \E id \in IDS : removeSource(id)
          \/ registryShutdown
       /\ UNCHANGED <<engVars, repVars, emVars, orcVars, upVars, snapVars, fnVars>>
    \/ /\ call.op = "none"
       /\ NextEngine

\* the callback of the timer of the object r
TimerStep(r) ==
    /\ TimerFires(r)
    /\ UNCHANGED <<engVars, repVars, emVars, orcVars, upVars, snapVars, fnVars>>

\* the rest of the addFileSource call that created the object ref
ReadStep(ref) ==
    /\ \E rd \in reads : rd.ref = ref /\ addFileSourceResume(rd)
    /\ UNCHANGED <<engVars, repVars, emVars, orcVars, upVars, snapVars, fnVars>>

\* the rest of the n-th runAnalysis call
DelayStep(n) ==
    /\ \E c \in analyses :
            /\ c.n = n
            /\ \E draws \in Draws(c.data) : runAnalysisResume(c, draws)
    /\ UNCHANGED <<regVars, repVars, emVars, orcVars, upVars, snapVars, fnVars>>

Reading(ref) == \E rd \in reads : rd.ref = ref

Analysing(n) == \E c \in analyses : c.n = n

\* Weak fairness of the three kinds of step.  ReadStep(ref) is enabled
\* exactly when Reading(ref) and DelayStep(n) exactly when Analysing(n), so
\* that the last two conjuncts are WF_vars(ReadStep(ref)) and
\* WF_vars(DelayStep(n)) with the enabling condition written out.
Fairness ==
    /\ \A r \in IDS : WF_vars(TimerStep(r))
    /\ \A ref \in IDS : []<>(~Reading(ref)) \/ []<><<ReadStep(ref)>>_vars
    /\ \A n \in 1..MaxRuns : []<>(~Analysing(n)) \/ []<><<DelayStep(n)>>_vars

SpecFair == Init /\ [][NextFair]_vars /\ Fairness

(***************************************************************************)
(* SpecEmitter: an EventEmitter whose listeners are added, removed and     *)
(* notified in any order.                                                  *)
(***************************************************************************)
NextEmitter ==
    /\ \/ \E event \in EventNames, listener \in Listeners : on(event, listener)
       \/ \E event \in EventNames, listener \in Listeners : off(event, listener)
       \/ \E event \in EventNames : emit(event)
       \/ \E event \in EventNames : removeListenersOf(event)
       \/ removeAllListeners
    /\ UNCHANGED <<regVars, engVars, repVars, orcVars, upVars, snapVars, fnVars>>

SpecEmitter == Init /\ [][NextEmitter]_vars

(***************************************************************************)
(* SpecThreatLevel: the metadata.threatLevel that generateReport computes, *)
(* over every list of at most MaxFindings findings.  Of a finding only the *)
(* severity is read.                                                       *)
(***************************************************************************)
FindingLists ==
    UNION {[1..n -> [severity : Severities]] : n \in 0..MaxFindings}

InitThreatLevel ==
    /\ RegistryInit
    /\ EngineInit
    /\ ReportsInit
    /\ EmitterInit
    /\ OrchestratorInit
    /\ UploadInit
    /\ SnapshotInit
    /\ arg \in FindingLists
    /\ ret = "none"

ComputeThreatLevel ==
    /\ ret = "none"
    /\ ret' = NewReport(1, [type |-> "executive-summary", format |-> "html",
                            title |-> "undefined"], arg, <<>>).metadata.threatLevel
    /\ UNCHANGED <<regVars, engVars, repVars, emVars, orcVars, upVars, snapVars, arg>>

SpecThreatLevel == InitThreatLevel /\ [][ComputeThreatLevel]_vars

(***************************************************************************)
(* SpecDetection: the threat-detection strategy alone, over every list of  *)
(* at most MaxRecords records and every outcome of Math.random() < 0.1.    *)
(***************************************************************************)
DetectionRecords ==
    {BenignRecord,
     generateNetworkData[2],
     [id |-> Str("3"), content |-> Str("Data BREACH at vendor")],
     [id |-> Str("4"), port |-> Num(8080)],
     [id |-> Str("5"), port |-> Num(0)],
     generateThreatData[1],
     generateThreatData[2],
     [id |-> Str("8"), severity |-> Str("high")],
     JsNull}

DetectionLists == UNION {[1..n -> DetectionRecords] : n \in 0..MaxRecords}

DetectionDraws(d) == [1..Len(d) -> [suspicious : BOOLEAN, confidence : {70}]]

InitDetection ==
    /\ RegistryInit
    /\ EngineInit
    /\ ReportsInit
    /\ EmitterInit
    /\ OrchestratorInit
    /\ UploadInit
    /\ SnapshotInit
    /\ arg \in DetectionLists
    /\ ret = NotRun

Detect ==
    /\ ret = NotRun
    /\ \E draws \in DetectionDraws(arg) :
            ret' = runStrategy(arg, [type |-> "threat-detection",
                                     severityFilter |-> "all"], draws)
    /\ UNCHANGED <<regVars, engVars, repVars, emVars, orcVars, upVars, snapVars, arg>>

SpecDetection == InitDetection /\ [][Detect]_vars

(***************************************************************************)
(* SpecSourceCount: the metadata.dataSourcesCount that generateReport      *)
(* computes, over every list of at most MaxRecords records.  Of a record   *)
(* the properties source and sourceIP are read; a null record makes the    *)
(* computation raise a TypeError.                                          *)
(***************************************************************************)
SourceRecords ==
    {[source |-> Str("Twitter")],
     [source |-> Str("Forum"), sourceIP |-> Str("10.0.0.1")],
     [sourceIP |-> Str("10.0.0.1")],
     [source |-> Str(""), sourceIP |-> Str("Twitter")],
     [source |-> JsNull, sourceIP |-> Str("192.168.1.100")],
     [id |-> Str("1")],
     JsNull}

RecordLists == UNION {[1..n -> SourceRecords] : n \in 0..MaxRecords}

NotCounted == [done |-> FALSE, threw |-> FALSE, count |-> 0]

InitSourceCount ==
    /\ RegistryInit
    /\ EngineInit
    /\ ReportsInit
    /\ EmitterInit
    /\ OrchestratorInit
    /\ UploadInit
    /\ SnapshotInit
    /\ arg \in RecordLists
    /\ ret = NotCounted

ComputeSourceCount ==
    /\ ret = NotCounted
    /\ ret' = IF UniqueSourcesThrows(arg)
              THEN [done |-> TRUE, threw |-> TRUE, count |-> 0]
              ELSE [done |-> TRUE, threw |-> FALSE,
                    count |-> NewReport(1, [type |-> "executive-summary",
                                            format |-> "html", title |-> "undefined"],
                                        <<>>, arg).metadata.dataSourcesCount]
    /\ UNCHANGED <<regVars, engVars, repVars, emVars, orcVars, upVars, snapVars, arg>>

SpecSourceCount == InitSourceCount /\ [][ComputeSourceCount]_vars

(***************************************************************************)
(* SpecIncident: the incident-report narrative alone, over every list of   *)
(* at most MaxIncidents findings.  A finding is told from the others of    *)
(* its list by its title.                                                  *)
(***************************************************************************)
IncidentTitles == {"Malicious IP Activity", "Suspicious File Hash", "Unusual Port Activity"}

IncidentFindings ==
    {Finding("threat-0", "threat", title, severity, 92, <<>>,
             <<"Investigate " \o title, "Document incident">>) :
        title \in IncidentTitles, severity \in Severities}

IncidentLists == UNION {[1..n -> IncidentFindings] : n \in 0..MaxIncidents}

InitIncident ==
    /\ RegistryInit
    /\ EngineInit
    /\ ReportsInit
    /\ EmitterInit
    /\ OrchestratorInit
    /\ UploadInit
    /\ SnapshotInit
    /\ arg \in IncidentLists
    /\ ret = NoContent

ComputeIncident ==
    /\ ret = NoContent
    /\ ret' = generateContent([type |-> "incident-report", format |-> "html",
                               title |-> "undefined"], arg, <<>>).recs
    /\ UNCHANGED <<regVars, engVars, repVars, emVars, orcVars, upVars, snapVars, arg>>

SpecIncident == InitIncident /\ [][ComputeIncident]_vars

(***************************************************************************)
(* SpecNormalize: parseFile alone, over the files of NormalizeFiles.       *)
(***************************************************************************)
InitNormalize ==
    /\ RegistryInit
    /\ EngineInit
    /\ ReportsInit
    /\ EmitterInit
    /\ OrchestratorInit
    /\ UploadInit
    /\ SnapshotInit
    /\ arg \in NormalizeFiles
    /\ ret = NotRun

Normalize ==
    /\ ret = NotRun
    /\ ret' = parseFile(arg)
    /\ UNCHANGED <<regVars, engVars, repVars, emVars, orcVars, upVars, snapVars, arg>>

SpecNormalize == InitNormalize /\ [][Normalize]_vars

\* C30: a call of getSources, getSource, getSourceData or getAllData changes
\* neither Map of the registry, no source, no pending timer and no suspended
\* call, and emits no event; and getSources called twice with no step in
\* between returns the same sequence of sources, field by field.
C30_AccessorsOnlyRead ==
    [][call'.op \in AccessorOps =>
            /\ UNCHANGED <<sources, data, heap, nextId, timers, reads>>
            /\ emitted' = <<>>
            /\ getSources' = getSources
            /\ getAllData' = getAllData
            /\ (call.op = "getSources" /\ call'.op = "getSources") => ret' = ret]_vars

\* C30 witness: getSources has returned two sources while the file of one of
\* them is still read and no record is stored for it
C30_Witness ==
    /\ call.op = "getSources"
    /\ Len(ret) = 2
    /\ reads # {}
    /\ Len(data) < 2

(***************************************************************************)
(* Claims about the orchestrator.                                          *)
(***************************************************************************)

\* C33: however many initialize calls are issued, overlapping or not (and no
\* shutdown), the sample sources are registered once, the three of the list
\* (two active, one inactive), and initialized is emitted once.
C33_InitializeIsIdempotent ==
    (\A i \in 1..Len(lifecycleLog) : lifecycleLog[i] = "initialize") =>
        /\ initializedCount <= 1
        /\ Len(registered) <= Len(sampleSources)
        /\ isInitialized =>
                registered = [k \in 1..Len(sampleSources) |->
                                [name |-> sampleSources[k].name,
                                 status |-> sampleSources[k].status]]

\* C34: whatever initialize and shutdown calls came before it, a UI event
\* is handled by one handler of the orchestrator, which issues one
\* component call before its first await: one addFileSource for the first
\* file of a fileUpload, one runAnalysis for an analysisRun, one
\* generateReport for a reportGenerate.
C34_OneHandlerPerUiEvent ==
    uiCall.event # "none" =>
        /\ Len(uiCall.invoked) = 1
        /\ uiCall.event # "navigationChange" =>
                uiCall.issued = <<HandlerCall[uiCall.event]>>

\* the source object of the awaited call is registered
UploadedRegistered == \E i \in 1..Len(sources) : sources[i].v = upload.ref

\* the suspended addFileSource call of the file that the run is at
UploadedRead ==
    IF upload.at = 0
    THEN {}
    ELSE {[ref |-> upload.ref, file |-> upload.files[upload.at]]}

\* the files of a run are taken one at a time, in list order, each after
\* the one before it was normalized, and the run ends at the first that
\* fails or after the last
UploadIsSequential ==
    upload.state # "none" =>
        /\ Len(upload.refs) = upload.at
        /\ upload.at <= Len(upload.files)
        /\ \A i \in 1..Len(upload.refs) : \A j \in 1..(i - 1) :
                upload.refs[j] < upload.refs[i]
        /\ \A j \in 1..(upload.at - 1) : parseFile(upload.files[j]).ok
        /\ reads \subseteq UploadedRead
        /\ (upload.state = "running" /\ upload.awaiting = "pending") =>
                reads = UploadedRead
        /\ upload.state = "failed" => ~parseFile(upload.files[upload.at]).ok
        /\ upload.state = "done" =>
                /\ upload.at = Len(upload.files)
                /\ \A j \in 1..Len(upload.files) : parseFile(upload.files[j]).ok

\* C36 as stated: the files of an upload are processed one at a time in list
\* order, the run stops at the first file that fails to normalize, no later
\* file is registered or read, and when the call of that file rejects its
\* source is registered with status error.
C36_UploadStopsAtFirstFailure ==
    /\ UploadIsSequential
    /\ (upload.state = "running" /\ upload.awaiting = "rejected") =>
            UploadedRegistered /\ heap[upload.ref].status = "error"

\* C36 as amended: the same, but the source of the failing file is
\* registered, with status error, only if the registry was not shut down
\* while the file was read; after such a shutdown no source is registered.
C36_UploadStopsAtFirstFailureUnlessShutDown ==
    /\ UploadIsSequential
    /\ (upload.state = "running" /\ upload.awaiting = "rejected") =>
            IF UploadedRegistered
            THEN heap[upload.ref].status = "error"
            ELSE sources = <<>>

\* C36 witness: the run over a file that does not normalize and a file
\* that does has ended in its catch block: one source is registered, with
\* status error, no object was created for the second file and nothing is
\* read
C36_Witness ==
    /\ upload.state = "failed"
    /\ Len(upload.files) = 2
    /\ upload.at = 1
    /\ parseFile(upload.files[2]).ok
    /\ Len(sources) = 1
    /\ UploadedRegistered
    /\ heap[upload.ref].status = "error"
    /\ nextId = upload.ref + 1
    /\ reads = {}

CommonPorts == {80, 443, 22, 21, 25, 53, 110, 143, 993, 995}

HasUncommonPort(item) ==
    /\ "port" \in DOMAIN item
    /\ item.port \notin {Num(p) : p \in CommonPorts}

\* one of the four deterministic rules holds of the record
RuleHolds(item) ==
    \/ /\ "sourceIP" \in DOMAIN item
       /\ item.sourceIP \in {Str("203.0.113.45"), Str("198.51.100.23"), Str("192.0.2.100")}
    \/ /\ "content" \in DOMAIN item
       /\ item.content \in {Str("Data BREACH at vendor"),
                             Str("Suspicious activity reported in sector 7"),
                             Str("New vulnerability discovered in popular software")}
    \/ HasUncommonPort(item)
    \/ /\ "type" \in DOMAIN item
       /\ item.type = Str("malware")

\* the findings of the records, without the canned ones that stand in when
\* no record is flagged
OwnFindings(found) == SelectSeq(found, LAMBDA r : r.id \notin
                            {"threat-sample-1", "threat-sample-2", "threat-sample-3"})

RecordId(i) == "threat-" \o ToString(i - 1)

\* C28: threat detection flags every record of which one of the four rules
\* holds; every finding of a record has type threat, the id threat-<index of
\* the record> and the record as its evidence, no record has two findings,
\* and the findings are in the order of the records.
C28_RuleMatchesAreFlagged ==
    ret # NotRun =>
        LET found == OwnFindings(ret.recs)
        IN /\ \A i \in 1..Len(arg) :
                  RuleHolds(arg[i]) => \E j \in 1..Len(found) : found[j].id = RecordId(i)
           /\ \A j \in 1..Len(found) :
                  /\ found[j].type = "threat"
                  /\ \E i \in 1..Len(arg) :
                        /\ found[j].id = RecordId(i)
                        /\ found[j].evidence = <<arg[i]>>
                        /\ \A k \in 1..(j - 1) :
                              \E h \in 1..(i - 1) : found[k].id = RecordId(h)

\* the decision table of the severity of a finding, over its record
SeverityTable(item) ==
    IF ("type" \in DOMAIN item /\ item.type = Str("malware"))
       \/ ("severity" \in DOMAIN item /\ item.severity = Str("high"))
    THEN "critical"
    ELSE IF ("status" \in DOMAIN item /\ item.status = Str("blocked"))
            \/ ("severity" \in DOMAIN item /\ item.severity = Str("medium"))
    THEN "high"
    ELSE IF HasUncommonPort(item)
    THEN "medium"
    ELSE "low"

\* C29: the severity of the finding of a record is critical if the record's
\* type is malware or its severity is high; otherwise high if its status is
\* blocked or its severity is medium; otherwise medium if it has a port
\* outside the common ports; otherwise low.
C29_SeverityByDecisionTable ==
    ret # NotRun =>
        \A j \in 1..Len(OwnFindings(ret.recs)) :
            OwnFindings(ret.recs)[j].severity =
                SeverityTable(OwnFindings(ret.recs)[j].evidence[1])

(***************************************************************************)
(* Claims about the normalizer.                                            *)
(***************************************************************************)

\* the file name of a normalized file has a '.' and the text after its last
\* '.' is, in lower case, the extension e
HasExtension(file, e) ==
    Len(file.name) > 1 /\ toLowerCase(file.name[Len(file.name)]) = e

\* C21: the parser is selected by the extension of the file name alone,
\* compared case-insensitively: json, csv, xml and txt give the result of the
\* JSON, CSV, XML and text parser; a file name with another extension or
\* with no '.' at all fails with the unsupported-format error and yields no
\* records.
C21_ParserByExtensionOnly ==
    ret # NotRun =>
        CASE HasExtension(arg, "json") -> ret = parseJSON(arg.text)
          [] HasExtension(arg, "csv") -> ret = parseCSV(arg.text)
          [] HasExtension(arg, "xml") -> ret = parseXML(arg.text)
          [] HasExtension(arg, "txt") -> ret = parseText(arg.text)
          [] OTHER -> ret = Fail("Unsupported file type")

\* the logical entries of a well-formed text
KeptLines(text) == SelectSeq(text.lines, LAMBDA line : line # <<" ">>)

MatchedElements(text) ==
    SelectSeq(text.xml.elements, LAMBDA el : el.tag \in {"item", "record", "entry"})

\* C22: for each supported format, well-formed input of N logical entries
\* (JSON array elements, CSV data lines, matched XML elements, non-blank
\* text lines) gives exactly N records, record i made of entry i; a JSON
\* text that is one value and no array gives exactly 1 record.
C22_OneRecordPerEntry ==
    ret # NotRun =>
        /\ (HasExtension(arg, "json") /\ arg.text.json.valid) =>
                /\ ret.ok
                /\ arg.text.json.isArray => ret.recs = arg.text.json.value
                /\ ~arg.text.json.isArray => ret.recs = <<arg.text.json.value>>
        /\ (HasExtension(arg, "csv") /\ Len(KeptLines(arg.text)) >= 2) =>
                /\ ret.ok
                /\ Len(ret.recs) = Len(KeptLines(arg.text)) - 1
                /\ \A i \in 1..Len(ret.recs) :
                        ret.recs[i] = CsvRow([j \in 1..Len(KeptLines(arg.text)[1]) |->
                                                 trim(KeptLines(arg.text)[1][j])],
                                             KeptLines(arg.text)[i + 1])
        /\ (HasExtension(arg, "xml") /\ arg.text.xml.wellFormed) =>
                /\ ret.ok
                /\ Len(ret.recs) = Len(MatchedElements(arg.text))
                /\ \A i \in 1..Len(ret.recs) :
                        ret.recs[i] = XmlObj(MatchedElements(arg.text)[i].children)
        /\ HasExtension(arg, "txt") =>
                /\ ret.ok
                /\ Len(ret.recs) = Len(KeptLines(arg.text))
                /\ \A i \in 1..Len(ret.recs) :
                        /\ ret.recs[i].id = Num(i)
                        /\ ret.recs[i].content = Str(TrimLine(KeptLines(arg.text)[i]))

\* the header names of a CSV text and the column that gives a field its
\* value: of columns with the same name the last
HeaderNames(text) ==
    [j \in 1..Len(KeptLines(text)[1]) |-> trim(KeptLines(text)[1][j])]

GivesField(headers, j) == \A k \in (j + 1)..Len(headers) : headers[k] # headers[j]

\* C23: in CSV normalization every record has exactly the field names of the
\* header; a field is the trimmed value of its column, the empty string when
\* the row has no value for the column, and the values beyond the header
\* count are in no record; a text with fewer than two non-blank lines fails
\* with the insufficient-rows error.
C23_CsvRecordsHaveHeaderFields ==
    (ret # NotRun /\ HasExtension(arg, "csv")) =>
        IF Len(KeptLines(arg.text)) < 2
        THEN ret = Fail("CSV must have header and data rows")
        ELSE /\ ret.ok
             /\ \A i \in 1..Len(ret.recs) :
                    LET headers == HeaderNames(arg.text)
                        values == KeptLines(arg.text)[i + 1]
                    IN /\ DOMAIN ret.recs[i] = {headers[j] : j \in 1..Len(headers)}
                       /\ \A j \in 1..Len(headers) :
                              GivesField(headers, j) =>
                                  ret.recs[i][headers[j]] =
                                      IF j <= Len(values)
                                      THEN Str(trim(values[j]))
                                      ELSE Str("")

\* a CSV file was normalized whose rows have fewer, and more, values than
\* the header, and one whose only non-blank line is the header
C23_Witness ==
    /\ ret # NotRun
    /\ HasExtension(arg, "csv")
    /\ \/ /\ arg.text.lines = << <<" name", "value">>, <<" a">>, <<"b", "2", "x">> >>
          /\ ret.recs = << [name |-> Str("a"), value |-> Str("")],
                           [name |-> Str("b"), value |-> Str("2")] >>
       \/ /\ arg.text.lines = << <<"name", "value">>, <<" ">>, <<" ">> >>
          /\ ~ret.ok

(***************************************************************************)
(* Claims about the source registry.                                       *)
(***************************************************************************)

\* C1: in every reachable state every record set the registry holds is keyed
\* by the id of a source that is registered, so that getAllData() holds only
\* records of registered sources.
C1_DataOnlyOfRegistered ==
    \A i \in 1..Len(data) : MapHas(sources, data[i].k)

\* the record sets of the registered sources, in the order getAllData lists them
AllDataOfRegistered ==
    Flatten([i \in 1..Len(data) |->
                IF MapHas(sources, data[i].k) THEN data[i].v ELSE <<>>])

\* the record sets of the registered sources, in the order of getSources()
DataInRegistrationOrder ==
    Flatten([i \in 1..Len(sources) |-> getSourceData(sources[i].k)])

\* C2: getAllData() lists the record sets of the registered sources in the
\* order in which the sources were registered (the order of getSources()).
C2_AllDataInRegistrationOrder ==
    AllDataOfRegistered = DataInRegistrationOrder

\* the last step was an addFileSource call rejecting with its parse error
FileSourceRejected(c) == c.op = "addFileSource" /\ c.outcome \in ParseErrors

\* C3 as stated: once addFileSource has rejected with the parse error, the
\* source it registered is registered with status error and has an empty
\* record set.
C3_RejectLeavesErrorSource ==
    FileSourceRejected(call) =>
        /\ MapHas(sources, call.key)
        /\ heap[MapGet(sources, call.key)].status = "error"
        /\ getSourceData(call.key) = <<>>

\* C3 as amended: addFileSource registers exactly one new source before it
\* reads the file; when it rejects with the parse error it changes neither
\* the set of registered sources nor any record set (nothing is rolled back,
\* no records are stored), and its source, when still registered, has
\* status error.
C3_RejectKeepsRegistration ==
    [][/\ (call'.op = "addFileSource" /\ call'.outcome = "pending") =>
            /\ ~MapHas(sources, call'.key)
            /\ sources' = Append(sources, [k |-> call'.key, v |-> call'.key])
            /\ data' = data
       /\ FileSourceRejected(call') =>
            /\ sources' = sources
            /\ data' = data
            /\ emitted' = <<Event("sourceAdded", heap[call'.key].id)>>
            /\ MapHas(sources', call'.key) =>
                    heap'[MapGet(sources', call'.key)].status = "error"]_vars

\* C3 witness: a rejected addFileSource whose source is registered in status
\* error with no records, beside another registered source
C3_Witness ==
    /\ FileSourceRejected(call)
    /\ MapHas(sources, call.key)
    /\ heap[call.key].status = "error"
    /\ getSourceData(call.key) = <<>>
    /\ Len(sources) = 2

\* the last step was updateSource or removeSource on an id not registered
\* before the step
NotFoundCall(c, before) ==
    /\ c.op \in {"updateSource", "removeSource"}
    /\ ~MapHas(before, c.key)

\* C4: updateSource and removeSource on an unregistered id fail with
\* "Source not found" and change nothing: the sources, their fields and the
\* record sets stay as they are and no event is emitted.
C4_NotFoundChangesNothing ==
    [][NotFoundCall(call', sources) =>
        /\ call'.outcome = "Source not found"
        /\ sources' = sources
        /\ heap' = heap
        /\ data' = data
        /\ emitted' = <<>>]_vars

\* C4 witness: a removeSource that failed on an unregistered id while the
\* registry holds a source and a record set of an id that is not registered
C4_Witness ==
    /\ call.op = "removeSource"
    /\ call.outcome = "Source not found"
    /\ Len(sources) > 0
    /\ MapHas(data, call.key)

\* C13: in every reachable state a registered source has status error only
\* if an addFileSource call registered it and the normalization of its file
\* failed.
C13_ErrorOnlyByFailedFile ==
    \A i \in 1..Len(sources) :
        heap[sources[i].v].status = "error" =>
            /\ origin[sources[i].v].by = "addFileSource"
            /\ origin[sources[i].v].failed

\* C14: in every reachable state the source registered under key k has
\* id = k, and no two registered sources have the same id field.
C14_IdFieldIsKey ==
    /\ \A i \in 1..Len(sources) : heap[sources[i].v].id = sources[i].k
    /\ \A i, j \in 1..Len(sources) :
            heap[sources[i].v].id = heap[sources[j].v].id => i = j

\* C15: every addSource and every addFileSource call registers its source
\* under an id no registered source has, so that the number of registered
\* sources grows by one.
C15_EachCallAddsOneSource ==
    [][(\/ call'.op = "addSource"
        \/ call'.op = "addFileSource" /\ call'.outcome = "pending") =>
            /\ ~MapHas(sources, call'.key)
            /\ Len(getSources') = Len(getSources) + 1]_vars

\* C17: a source that addSource registered with a status other than active
\* (inactive when the config gives none) never has a non-empty record set.
C17_OnlyActiveSourcesGetRecords ==
    \A i \in 1..Len(sources) :
        (/\ origin[sources[i].v].by = "addSource"
         /\ origin[sources[i].v].status # "active") =>
            getSourceData(sources[i].k) = <<>>

\* the key under which the object with reference r is registered, 0 if none
KeyOf(r) ==
    IF \E i \in 1..Len(sources) : sources[i].v = r
    THEN sources[CHOOSE i \in 1..Len(sources) : sources[i].v = r].k
    ELSE 0

\* C18: the demo population of a source leaves the set of registered
\* sources, the fields of every source and the record set of every other
\* source unchanged.
C18_PopulationTouchesOneSource ==
    [][call'.op = "loadSampleData" =>
        LET r == CHOOSE r \in timers : r \notin timers'
        IN /\ sources' = sources
           /\ \A i \in 1..Len(sources) : heap'[sources[i].v] = heap[sources[i].v]
           /\ \A i \in 1..Len(data) :
                    data[i].k # KeyOf(r) =>
                        /\ MapHas(data', data[i].k)
                        /\ MapGet(data', data[i].k) = data[i].v]_vars

\* C19: removeSource(id) on a registered id deletes that source and its
\* record set, emits sourceRemoved once, and leaves every other source, its
\* fields and every other record set as they are, in their order.
C19_RemoveDeletesOneSource ==
    [][(call'.op = "removeSource" /\ MapHas(sources, call'.key)) =>
        /\ call'.outcome = "ok"
        /\ ~MapHas(sources', call'.key)
        /\ ~MapHas(data', call'.key)
        /\ sources' = SelectSeq(sources, LAMBDA e : e.k # call'.key)
        /\ data' = SelectSeq(data, LAMBDA e : e.k # call'.key)
        /\ \A i \in 1..Len(sources') : heap'[sources'[i].v] = heap[sources'[i].v]
        /\ Len(emitted') = 1
        /\ emitted'[1].ev = "sourceRemoved"]_vars

\* C19 witness: a removeSource has succeeded and has left the other source
\* with its records
C19_Witness ==
    /\ call.op = "removeSource"
    /\ call.outcome = "ok"
    /\ Len(sources) = 1
    /\ Len(data) = 1
    /\ data[1].k = sources[1].k
    /\ data[1].v # <<>>

\* the records of the CSV file with header name,value and rows a,1 and b,2
CsvRows ==
    << [name |-> Str("a"), value |-> Str("1")],
       [name |-> Str("b"), value |-> Str("2")] >>

\* C20 as stated: after a successful addFileSource the source is registered
\* with type custom and status active and getSourceData(id) is the record
\* sequence of the normalizer; with a single registered CSV file source
\* getAllData() returns the two records of the file.
C20_SuccessLeavesActiveSource ==
    /\ (call.op = "addFileSource" /\ call.outcome = "ok") =>
            /\ MapHas(sources, call.key)
            /\ heap[MapGet(sources, call.key)].type = "custom"
            /\ heap[MapGet(sources, call.key)].status = "active"
            /\ getSourceData(call.key) = CsvRows
    /\ (/\ Len(sources) = 1
        /\ origin[sources[1].v].by = "addFileSource"
        /\ ~origin[sources[1].v].failed
        /\ \A rd \in reads : rd.ref # sources[1].v) =>
            getAllData = CsvRows

\* the object of a suspended addFileSource call is as the call created it
\* and is registered under its id
Untouched(rd) ==
    /\ heap[rd.ref].type = "custom"
    /\ MapHas(sources, heap[rd.ref].id)
    /\ MapGet(sources, heap[rd.ref].id) = rd.ref

\* C20 as amended: a successful addFileSource stores the record sequence of
\* the normalizer, in order, under the id its source has when the read
\* completes, sets the status of its source to active and changes neither
\* another record set nor the set of registered sources; the source is
\* registered with type custom and status active and getSourceData(id) is
\* that sequence when the source was not removed and its type and id were
\* not updated during the read; with the CSV file, getAllData() is its two
\* records when the registry holds no other record set.
C20_SuccessStoresRecords ==
    [][(call'.op = "addFileSource" /\ call'.outcome = "ok") =>
        LET rd == CHOOSE rd \in reads : rd \notin reads'
            id == heap[rd.ref].id
        IN /\ sources' = sources
           /\ KeyOf(rd.ref) # 0 => heap'[rd.ref].status = "active"
           /\ MapHas(data', id)
           /\ rd.file = CsvFile => MapGet(data', id) = CsvRows
           /\ \A i \in 1..Len(data) :
                    data[i].k # id => /\ MapHas(data', data[i].k)
                                      /\ MapGet(data', data[i].k) = data[i].v
           /\ Untouched(rd) =>
                    /\ MapGet(sources', id) = rd.ref
                    /\ heap'[rd.ref] = [id |-> id, type |-> "custom", status |-> "active"]
           /\ (rd.file = CsvFile /\ Len(data') = 1) => getAllData' = CsvRows]_vars

\* C20 witness: the CSV file source is the one registered source, its call
\* has succeeded and getAllData() is the two records of the file
C20_Witness ==
    /\ call.op = "addFileSource"
    /\ call.outcome = "ok"
    /\ Len(sources) = 1
    /\ sources[1].k = call.key
    /\ heap[sources[1].v] = [id |-> call.key, type |-> "custom", status |-> "active"]
    /\ getSourceData(call.key) = CsvRows
    /\ getAllData = CsvRows

\* the positions of the events of a name in a sequence of events
EventsNamed(evs, name) == {i \in 1..Len(evs) : evs[i].ev = name}

\* C37: an addSource call emits sourceAdded once, for its source; an
\* addFileSource call emits nothing before the file is read and then
\* sourceAdded once, for its source, whether the file normalized or not,
\* followed by dataProcessed when it did and its records were stored.
\* dataProcessed is emitted only in a step that stored records under its
\* id, and only after sourceAdded for the same source: in the same step
\* before it, or from the timer of a source that addSource created.  The
\* timer emits dataProcessed first and sourceUpdated second.
C37_SourceAddedOncePerCall ==
    [][/\ call'.op = "addSource" =>
            emitted' = <<Event("sourceAdded", call'.key)>>
       /\ (call'.op = "addFileSource" /\ call'.outcome = "pending") =>
            emitted' = <<>>
       /\ (call'.op = "addFileSource" /\ call'.outcome # "pending") =>
            /\ EventsNamed(emitted', "sourceAdded") = {1}
            /\ emitted'[1].key = heap[call'.key].id
            /\ IF call'.outcome = "ok"
               THEN /\ emitted' = <<Event("sourceAdded", heap[call'.key].id),
                                    Event("dataProcessed", heap[call'.key].id)>>
                    /\ MapHas(data', heap[call'.key].id)
               ELSE /\ Len(emitted') = 1
                    /\ data' = data
       /\ \A p \in EventsNamed(emitted', "dataProcessed") :
            /\ MapHas(data', emitted'[p].key)
            /\ \/ \E q \in 1..(p - 1) : emitted'[q] = Event("sourceAdded", emitted'[p].key)
               \/ \E r \in timers :
                    /\ timers' = timers \ {r}
                    /\ origin[r].by = "addSource"
                    /\ heap[r].id = emitted'[p].key
       /\ call'.op = "loadSampleData" =>
            /\ emitted'[1].ev = "dataProcessed"
            /\ \A p \in 2..Len(emitted') : emitted'[p].ev = "sourceUpdated"
            /\ Len(emitted') <= 2]_vars

\* C37 witness: the timer of a source has emitted dataProcessed and then
\* sourceUpdated for it while the file of another source is read, for which
\* nothing was emitted yet
C37_Witness ==
    /\ call.op = "loadSampleData"
    /\ emitted = <<Event("dataProcessed", call.key), Event("sourceUpdated", call.key)>>
    /\ reads # {}

(***************************************************************************)
(* Claims about the EventEmitter.                                          *)
(***************************************************************************)

\* the listeners of an array with the raising taken out of each of them
Harmless(listeners) ==
    [i \in 1..Len(listeners) |-> [listeners[i] EXCEPT !.raises = FALSE]]

C32_EmitInvokesEveryListenerOnce ==
    emitCall.op = "emit" =>
        emitCall.invoked = [i \in 1..Len(emitCall.before) |-> emitCall.before[i].name]

(***************************************************************************)
(* Claims about the analysis engine.                                       *)
(***************************************************************************)

\* C5: once some runAnalysis call has resolved, getLatestResults() is exactly
\* the filtered finding list that the call which resolved last returned,
\* whatever the order in which the calls were issued: the list published
\* before is replaced, not merged with the new one.
C5_LatestIsLastCompleted ==
    lastOk.n # 0 => getLatestResults = lastOk.returned

\* C5 witness: all calls have completed, the call issued first resolved after
\* the call issued second and returned another list, which is the one
\* getLatestResults() gives
C5_Witness ==
    /\ analyses = {}
    /\ lastOk.n = 1
    /\ lastOk.prev = 2
    /\ lastOk.replaced
    /\ lastOk.returned # <<>>
    /\ getLatestResults = lastOk.returned

\* the strategy of a call raises: threat-detection over a record it cannot read
StrategyThrows(c) ==
    /\ c.config.type = "threat-detection"
    /\ \E i \in 1..Len(c.data) : Throws(c.data[i])

\* C6: a runAnalysis call whose type is none of the four strategies fails
\* with "Unknown analysis type", one whose strategy raises fails with the
\* error raised; either leaves getLatestResults() and getThreatCount() as
\* they were before and emits analysisError.
C6_FailedRunKeepsResults ==
    [][engCall'.op = "runAnalysis" =>
        /\ engCall'.config.type \notin AnalysisTypes =>
                engCall'.outcome = "Unknown analysis type"
        /\ StrategyThrows(engCall') => engCall'.outcome = "TypeError"
        /\ (engCall'.config.type \notin AnalysisTypes \/ StrategyThrows(engCall')) =>
                /\ getLatestResults' = getLatestResults
                /\ getThreatCount' = getThreatCount
                /\ engEmitted' = <<"analysisError">>]_vars

\* C6 witness: a call of unknown type has failed while the engine holds the
\* findings and the threat count of an earlier run
C6_Witness ==
    /\ engCall.op = "runAnalysis"
    /\ engCall.config.type \notin AnalysisTypes
    /\ engCall.outcome = "Unknown analysis type"
    /\ getLatestResults # <<>>
    /\ getThreatCount > 0

\* a threat-detection call over records that can all be read and of which
\* none was classified suspicious
NoneSuspicious(c) ==
    /\ c.op = "runAnalysis"
    /\ c.config.type = "threat-detection"
    /\ ~StrategyThrows(c)
    /\ c.flagged = 0

\* the ids and the severities of a finding list
IdsAndSeverities(found) ==
    [i \in 1..Len(found) |-> [id |-> found[i].id, severity |-> found[i].severity]]

\* the three canned findings as the claim lists them
CannedFindings ==
    << [id |-> "threat-sample-1", severity |-> "high"],
       [id |-> "threat-sample-2", severity |-> "critical"],
       [id |-> "threat-sample-3", severity |-> "medium"] >>

KeptBySeverity(found, severityFilter) ==
    LET kept == {i \in 1..Len(found) : found[i].severity = severityFilter}
        nth(j) == CHOOSE i \in kept : Cardinality({k \in kept : k < i}) = j - 1
    IN [j \in 1..Cardinality(kept) |-> found[nth(j)]]

\* C11: a runAnalysis call that succeeds returns, with a severityFilter
\* other than 'all', the findings of the selected strategy whose severity is
\* the filter, in the strategy's order, and with severityFilter 'all' or
\* none (absent or empty) all findings of the strategy, unchanged.
C11_ReturnsFilteredFindings ==
    (engCall.op = "runAnalysis" /\ engCall.outcome = "ok") =>
        \E draws \in Draws(engCall.data) :
            LET found == runStrategy(engCall.data, engCall.config, draws).recs
            IN engCall.returned =
                    IF engCall.config.severityFilter \in {"all", "undefined", ""}
                    THEN found
                    ELSE KeptBySeverity(found, engCall.config.severityFilter)

\* C11 witness: threat-detection with severityFilter high over the demo
\* threat records, both flagged (one critical, one high), has returned the
\* high finding alone
C11_Witness ==
    /\ engCall.op = "runAnalysis"
    /\ engCall.outcome = "ok"
    /\ engCall.config = [type |-> "threat-detection", severityFilter |-> "high"]
    /\ engCall.data = generateThreatData
    /\ engCall.flagged = 2
    /\ Len(engCall.returned) = 1
    /\ engCall.returned[1].severity = "high"

\* C12: in every reachable state getThreatCount() is the number of findings
\* of getLatestResults() whose type is threat or whose severity is critical
\* or high.
C12_ThreatCountMatchesResults ==
    getThreatCount =
        Cardinality({i \in 1..Len(getLatestResults) :
                        \/ getLatestResults[i].type = "threat"
                        \/ getLatestResults[i].severity \in {"critical", "high"}})

\* C12 witness: two calls have overlapped, the one that resolved last has
\* published a finding that is not counted, after one that published counted
\* findings
C12_Witness ==
    /\ lastOk.prev # 0
    /\ lastOk.replaced
    /\ getLatestResults # <<>>
    /\ getThreatCount = 0
    /\ engCall.op = "runAnalysis"
    /\ engCall.outcome = "ok"

\* C35: once shutdown has run, getLatestResults() is empty and
\* getThreatCount() is 0, and a runAnalysis call that was suspended when
\* shutdown ran leaves them so when it resumes: the step after a shutdown,
\* when it is the rest of such a call, publishes nothing.
C35_ShutdownStaysEmpty ==
    [][/\ engCall'.op = "shutdown" =>
            getLatestResults' = <<>> /\ getThreatCount' = 0
       /\ (engCall.op = "shutdown" /\ engCall'.op = "runAnalysis") =>
            getLatestResults' = <<>> /\ getThreatCount' = 0]_vars

(***************************************************************************)
(* Claims about the report compiler.                                       *)
(***************************************************************************)

\* C7: a generateReport call that succeeds appends one Report of the format
\* and the type asked for at the end of the history, a call that fails or is
\* suspended leaves the history as it is, and no step but shutdown removes,
\* moves or changes a Report of the history.
C7_HistoryAppendOnly ==
    [][/\ (repCall'.op = "generateReport" /\ repCall'.outcome = "ok") =>
            /\ Len(getReports') = Len(getReports) + 1
            /\ getReports'[Len(getReports')].format = repCall'.config.format
            /\ getReports'[Len(getReports')].type = repCall'.config.type
            /\ repCall'.config.format \in ReportFormats
       /\ (repCall'.op = "generateReport" /\ repCall'.outcome # "ok") =>
            getReports' = getReports
       /\ repCall'.op # "shutdown" =>
            /\ Len(getReports') >= Len(getReports)
            /\ SubSeq(getReports', 1, Len(getReports)) = getReports]_vars

\* C7 witness: the history holds a pdf, an html and a json report
C7_Witness ==
    /\ Len(getReports) = 3
    /\ {getReports[i].format : i \in 1..3} = ReportFormats
    /\ getReports[1].format = "pdf"
    /\ repCall.op = "generateReport"
    /\ repCall.outcome = "ok"

\* C24: a generateReport call of format json with one of the four report
\* types adds exactly one Report at the end of the history; its
\* metadata.analysisResultsCount is the number of findings passed in, and the
\* JSON document behind its handle holds those findings, in their order and
\* unchanged, with the report and dataSourcesCount.
C24_JsonReportHoldsFindings ==
    [][(/\ repCall'.op = "generateReport"
        /\ repCall'.config.format = "json"
        /\ repCall'.config.type \in ReportTypes) =>
            LET report == getReports'[Len(getReports')]
            IN /\ Len(getReports') = Len(getReports) + 1
               /\ SubSeq(getReports', 1, Len(getReports)) = getReports
               /\ report.metadata.analysisResultsCount = Len(repCall'.found)
               /\ report.downloadUrl.kind = "json"
               /\ report.downloadUrl.document.analysisResults = repCall'.found
               /\ report.downloadUrl.document.report.id = report.id
               /\ report.downloadUrl.document.dataSourcesCount =
                      report.metadata.dataSourcesCount]_vars

\* the value of a property that is set and not empty
NonEmpty(item, f) ==
    /\ f \in DOMAIN item
    /\ item[f] \notin {JsNull, Str("")}

\* the positions of the findings of severity critical or high
HighPriority(found) ==
    {i \in 1..Len(found) : found[i].severity \in {"critical", "high"}}

\* C31: the incident-report narrative counts the findings of severity
\* critical or high, its timeline has one entry for each of them, in the
\* order of the input, and none for a finding of severity medium or low; its
\* count of critical incidents and its response actions come from those
\* findings alone.
C31_IncidentsAreCriticalOrHigh ==
    ret.template = "incident-report" =>
        LET hp == HighPriority(arg)
            nth(k) == CHOOSE i \in hp : Cardinality({j \in hp : j <= i}) = k
        IN /\ ret.incidents = Cardinality(hp)
           /\ Len(ret.timeline) = Cardinality(hp)
           /\ \A k \in 1..Len(ret.timeline) : ret.timeline[k] = arg[nth(k)].title
           /\ ret.criticalIncidents =
                  Cardinality({i \in hp : arg[i].severity = "critical"})
           /\ \A k \in 1..Len(ret.responseActions) :
                  \E i \in hp : \E m \in 1..Len(arg[i].recommendations) :
                      arg[i].recommendations[m] = ret.responseActions[k]

\* C31 witness: a high, a medium and a critical finding of three titles give
\* two incidents
C31_Witness ==
    /\ ret.template = "incident-report"
    /\ Len(arg) = 3
    /\ arg[1].severity = "high" /\ arg[2].severity = "medium"
    /\ arg[3].severity = "critical"
    /\ arg[1].title # arg[3].title /\ arg[2].title # arg[1].title
    /\ arg[2].title # arg[3].title
    /\ ret.incidents = 2

\* C38: a report enters the history when its call completes, at the end:
\* an html or json report in the step of its call, a pdf report in the step
\* that ends its painting and not when its call is issued.  Reports issued
\* and completed while a pdf report is painted precede it in the history.
C38_HistoryInCompletionOrder ==
    [][/\ reports' # reports =>
            \/ reports' = <<>> /\ repCall'.op = "shutdown"
            \/ \E r \in painting :
                    /\ painting' = painting \ {r}
                    /\ reports' = Append(reports, r)
            \/ /\ created' = created + 1
               /\ painting' = painting
               /\ Len(reports') = Len(reports) + 1
               /\ SubSeq(reports', 1, Len(reports)) = reports
               /\ reports'[Len(reports')].id = created'
               /\ reports'[Len(reports')].format \in {"html", "json"}
       /\ repCall'.outcome = "pending" => reports' = reports]_vars

\* C38 witness: the history holds a json report and after it the pdf report
\* of a call that was issued before the call of the json report
C38_Witness ==
    /\ Len(reports) = 2
    /\ reports[1].format = "json"
    /\ reports[2].format = "pdf"
    /\ reports[2].id < reports[1].id
    /\ painting = {}

\* C25: metadata.dataSourcesCount of a report is the number of distinct
\* values among the non-empty source and sourceIP properties of the records
\* it was compiled from (a record may give two values); it is a function of
\* the record list alone.
C25_CountsDistinctSourceValues ==
    (ret.done /\ ~ret.threw) =>
        ret.count = Cardinality(
            {arg[i].source : i \in {i \in 1..Len(arg) : NonEmpty(arg[i], "source")}}
            \cup {arg[i].sourceIP : i \in {i \in 1..Len(arg) : NonEmpty(arg[i], "sourceIP")}})

\* C25 witness: three records with five non-empty values, three of them
\* distinct: one value is the source of a record and the sourceIP of
\* another, one is the sourceIP of two records
C25_Witness ==
    /\ ret.done
    /\ arg = << [source |-> Str("Twitter")],
                [source |-> Str(""), sourceIP |-> Str("Twitter")],
                [source |-> JsNull, sourceIP |-> Str("192.168.1.100")] >>
    /\ ret.count = 2

\* C26: a runAnalysis call emits analysisStarted, once, in the step in which
\* it suspends, and in the step in which it ends exactly one event:
\* analysisCompleted when it resolves, analysisError when it rejects.  A
\* generateReport call emits in the step in which it ends exactly one event:
\* reportGenerated when it resolves, reportError when it rejects, and none
\* while it is suspended.  No other step emits one of these events.
C26_EventsPairWithOutcome ==
    [][/\ engVars' # engVars =>
            CASE engCall'.op = "runAnalysisStart" ->
                    /\ engEmitted' = <<"analysisStarted">>
                    /\ engCall'.outcome = "pending"
                    /\ \E c \in analyses' \ analyses : c.n = engCall'.n
              [] engCall'.op = "runAnalysis" ->
                    /\ \E c \in analyses \ analyses' : c.n = engCall'.n
                    /\ engCall'.outcome # "pending"
                    /\ engEmitted' = IF engCall'.outcome = "ok"
                                     THEN <<"analysisCompleted">>
                                     ELSE <<"analysisError">>
              [] OTHER -> engEmitted' = <<>>
       /\ repVars' # repVars =>
            CASE repCall'.op = "generateReport" /\ repCall'.outcome = "pending" ->
                    /\ repEmitted' = <<>>
                    /\ Cardinality(painting') = Cardinality(painting) + 1
              [] repCall'.op = "generateReport" /\ repCall'.outcome = "ok" ->
                    repEmitted' = <<"reportGenerated">>
              [] repCall'.op = "generateReport" ->
                    repEmitted' = <<"reportError">>
              [] OTHER -> repEmitted' = <<>>]_vars

\* C26 witness: of two runAnalysis calls in flight one has rejected, with
\* analysisError the one event of the step, and the other is still suspended
C26_Witness ==
    /\ engCall.op = "runAnalysis"
    /\ engCall.outcome \notin {"ok", "pending"}
    /\ engEmitted = <<"analysisError">>
    /\ analyses # {}

\* C8: a generateReport call of unknown type has failed with "Unknown report
\* type", and one of known type and unknown format with "Unknown report
\* format", reportError being the one event emitted.
C8_UnknownTypeOrFormatError ==
    repCall.op = "generateReport" =>
        /\ repCall.config.type \notin ReportTypes =>
                /\ repCall.outcome = "Unknown report type"
                /\ repEmitted = <<"reportError">>
        /\ (repCall.config.type \in ReportTypes
                /\ repCall.config.format \notin ReportFormats) =>
                /\ repCall.outcome = "Unknown report format"
                /\ repEmitted = <<"reportError">>

\* how many findings of a list have a severity
SeverityCount(found, severity) ==
    Cardinality({i \in 1..Len(found) : found[i].severity = severity})

\* the decision table of the claim
ThreatLevelTable(found) ==
    IF SeverityCount(found, "critical") >= 1 THEN "critical"
    ELSE IF SeverityCount(found, "high") > 2 THEN "high"
    ELSE IF SeverityCount(found, "high") >= 1 \/ SeverityCount(found, "medium") > 3
         THEN "medium"
    ELSE "low"

\* C9: the threat level in the metadata of a report is critical when a
\* finding is critical, else high when more than 2 findings are high, else
\* medium when a finding is high or more than 3 are medium, else low.
C9_ThreatLevelTable ==
    ret # "none" => ret = ThreatLevelTable(arg)

\* C9 witness: three high findings and no critical one give high
C9_Witness ==
    /\ ret = "high"
    /\ SeverityCount(arg, "high") = 3
    /\ SeverityCount(arg, "critical") = 0

(***************************************************************************)
(* Claims about the public calls of the orchestrator.                      *)
(***************************************************************************)

\* C39: the metadata of a report, in the history or still painted, counts
\* and rates the findings that getLatestResults() returned when its
\* generateReport call was issued, whatever the engine holds by now.
C39_ReportFromSnapshotAtIssue ==
    /\ \A i \in 1..Len(reports) :
            /\ reports[i].metadata.analysisResultsCount = Len(snapshots[reports[i].id])
            /\ reports[i].metadata.threatLevel = ThreatLevelTable(snapshots[reports[i].id])
    /\ \A r \in painting :
            /\ r.metadata.analysisResultsCount = Len(snapshots[r.id])
            /\ r.metadata.threatLevel = ThreatLevelTable(snapshots[r.id])

\* C39 witness: a pdf report issued before any analysis is in the history,
\* with no finding and level low, after an analysis that ended during its
\* painting left three findings, one of them critical
C39_Witness ==
    /\ Len(reports) = 1
    /\ reports[1].format = "pdf"
    /\ reports[1].metadata.analysisResultsCount = 0
    /\ reports[1].metadata.threatLevel = "low"
    /\ Len(getLatestResults) = 3
    /\ ThreatLevelTable(getLatestResults) = "critical"
    /\ lastOk.n = 1

====
